---- MODULE Spec2Model ----
(***************************************************************************)
(* A model of sm-crypto-v2: hex/byte utilities, modular arithmetic, the    *)
(* SM2 KDF, key-pair generation, key agreement, ECDH and SM4 modes.        *)
(*                                                                         *)
(* Representation.  A byte array (Uint8Array) is a sequence of 0..255.  A  *)
(* JavaScript string is the sequence of its UTF-16 code units ("04" is     *)
(* <<48, 52>>).  A call that throws returns a record with ok = FALSE.      *)
(*                                                                         *)
(* TLC's integers have 32 bits, so the 256-bit curve of the library is     *)
(* carried by a short Weierstrass curve of the same shape over a small     *)
(* prime (p = 3 mod 4, prime order n < p, cofactor 1); the widths of all   *)
(* encodings (32-byte scalars and coordinates, 64/130 hex characters,      *)
(* 32-byte digests) are the library's own.                                 *)
(***************************************************************************)
EXTENDS Integers, Sequences, FiniteSets, TLC

VARIABLES
  pc,       \* the scenario, and whether its call has been made
  kdfIn,    \* arguments of kdf: [z, keylen, ivNull, iv]
  kdfOut,   \* value returned by kdf
  kxIn,     \* key agreement: private scalars, identifiers, key length
  resA,     \* outcome of the initiator's calculateSharedKey
  resB,     \* outcome of the responder's calculateSharedKey
  genRnd,   \* bytes the curve's randomBytes returned to generateKeyPairHex
  genOut,   \* key pair returned by generateKeyPairHex
  hexIn,    \* a byte array or a string handed to the hex converters
  hexOut,   \* what the converters returned
  ecdhIn,   \* ECDH: the private scalars of the two parties
  ecdhA,    \* outcome of ecdh called by party A
  ecdhB,    \* outcome of ecdh called by party B
  sm4In,    \* SM4: key, message, mode, iv and padding
  sm4Ct,    \* outcome of sm4.encrypt, and the ciphertext handed to sm4.decrypt
  sm4Out,   \* outcome of sm4.decrypt
  callIn,   \* one call of a function of modular.ts, utils.ts or asn1: its arguments
  callOut,  \* what that call returned
  loop,     \* tonelliShanks: the locals of the running square root
  hashInsts,\* wrapConstructor: the hash instances built so far
  hashCalls \* wrapConstructor: the calls of the wrapped hash, running or returned

vars == <<pc, kdfIn, kdfOut, kxIn, resA, resB, genRnd, genOut, hexIn, hexOut,
          ecdhIn, ecdhA, ecdhB, sm4In, sm4Ct, sm4Out, callIn, callOut, loop,
          hashInsts, hashCalls>>

kdfVars == <<kdfIn, kdfOut>>
kxVars  == <<kxIn, resA, resB>>
genVars == <<genRnd, genOut>>
hexVars == <<hexIn, hexOut>>
ecdhVars == <<ecdhIn, ecdhA, ecdhB>>
sm4Vars == <<sm4In, sm4Ct, sm4Out>>
callVars == <<callIn, callOut>>
hashVars == <<hashInsts, hashCalls>>
\* the variables of the scenarios of a single call, a square root or a hash
laterVars == <<callVars, loop, hashVars>>

\* the variables of all scenarios but one
NotKdf  == <<kxVars, genVars, hexVars, ecdhVars, sm4Vars, laterVars>>
NotKx   == <<kdfVars, genVars, hexVars, ecdhVars, sm4Vars, laterVars>>
NotGen  == <<kdfVars, kxVars, hexVars, ecdhVars, sm4Vars, laterVars>>
NotHex  == <<kdfVars, kxVars, genVars, ecdhVars, sm4Vars, laterVars>>
NotEcdh == <<kdfVars, kxVars, genVars, hexVars, sm4Vars, laterVars>>
NotSm4  == <<kdfVars, kxVars, genVars, hexVars, ecdhVars, laterVars>>

\* the variables of the scenarios that are not running
KdfIdle == kdfIn = 0 /\ kdfOut = 0
KxIdle  == kxIn = 0 /\ resA = 0 /\ resB = 0
GenIdle == genRnd = 0 /\ genOut = 0
HexIdle == hexIn = 0 /\ hexOut = 0
EcdhIdle == ecdhIn = 0 /\ ecdhA = 0 /\ ecdhB = 0
Sm4Idle == sm4In = 0 /\ sm4Ct = 0 /\ sm4Out = 0
CallIdle == callIn = 0 /\ callOut = 0
LoopIdle == loop = 0
HashIdle == hashInsts = 0 /\ hashCalls = 0
LaterIdle == CallIdle /\ LoopIdle /\ HashIdle
\* the scenarios of the first part of the model are not running
EarlyIdle == KdfIdle /\ KxIdle /\ GenIdle /\ HexIdle /\ EcdhIdle /\ Sm4Idle
earlyVars == <<kdfVars, kxVars, genVars, hexVars, ecdhVars, sm4Vars>>

-----------------------------------------------------------------------------
(* Bounds of the model *)

\* longest z / iv handed to kdf
MaxZLen == 2
\* largest keylen handed to kdf: three digest blocks are started
MaxKdfLen == 65
\* largest sharedKeyLength handed to calculateSharedKey
MaxKeyLen == 1
\* largest ephemeral private scalar of the key agreement
MaxEphemeral == 3
\* largest value of the last random byte handed to generateKeyPairHex
MaxRandom == 60
\* longest byte array / string (in byte pairs) handed to the hex converters
MaxHexBytes == 2
\* longest plaintext handed to sm4.encrypt: one block and one byte
MaxSm4Len == 17

-----------------------------------------------------------------------------
(* Sequences and numbers *)

\* a sequence given as a function on 1..n, evaluated once into a tuple
Tuple(f) == f \o <<>>

\* n copies of v
Repeat(v, n) == Tuple([k \in 1..n |-> v])

\* all sequences over S of length 0..n
SeqsUpTo(S, n) == UNION {[1..k -> S] : k \in 0..n}

\* JSBI.remainder / the % of JavaScript: the sign follows the dividend
Rem(a, b) ==
  LET m == IF b < 0 THEN -b ELSE b
  IN  IF a >= 0 THEN a % m ELSE -((-a) % m)

\* JSBI.divide: truncates toward zero
Quot(a, b) == (a - Rem(a, b)) \div b

RECURSIVE Pow2(_)
Pow2(k) == IF k <= 0 THEN 1 ELSE 2 * Pow2(k - 1)

\* x >> k for a non-negative x
Shr(x, k) == x \div Pow2(k)

-----------------------------------------------------------------------------
(* Strings of hexadecimal digits: sm3/utils.ts, sm2/utils.ts and the       *)
(* helpers of @noble/curves/abstract/utils that the sources call           *)

\* Number.prototype.toString(16) of one digit: '0'..'9', 'a'..'f'
HexChar(d) == IF d < 10 THEN 48 + d ELSE 87 + d

IsDigit(c) == c >= 48 /\ c <= 57
IsLowerHex(c) == c >= 97 /\ c <= 102
IsUpperHex(c) == c >= 65 /\ c <= 70
IsHexChar(c) == IsDigit(c) \/ IsLowerHex(c) \/ IsUpperHex(c)

\* the value of a hexadecimal digit, either case
HexVal(c) == IF IsDigit(c) THEN c - 48 ELSE IF IsLowerHex(c) THEN c - 87 ELSE c - 55

\* String.prototype.toLowerCase on the characters A-Z
ToLower(c) == IF c >= 65 /\ c <= 90 THEN c + 32 ELSE c
toLowerCase(str) == Tuple([k \in 1..Len(str) |-> ToLower(str[k])])

\* num.toString(16) for num >= 0
RECURSIVE toString16(_)
toString16(num) ==
  IF num < 16 THEN <<HexChar(num)>>
  ELSE toString16(num \div 16) \o <<HexChar(num % 16)>>

\* str.padStart(n, '0')
padStart0(str, n) == Repeat(48, n - Len(str)) \o str

\* hexes[i] = i.toString(16).padStart(2, '0')
hexes(i) == padStart0(toString16(i), 2)

\* str.slice(s, e) / str.substring(s, e) for 0 <= s <= e, indices from 0
Slice(str, s, e) ==
  LET e2 == IF e > Len(str) THEN Len(str) ELSE e
      s2 == IF s > e2 THEN e2 ELSE s
  IN  Tuple([k \in 1..(e2 - s2) |-> str[s2 + k]])

(* Number.parseInt(str, 16): leading white space is skipped, then a sign,  *)
(* then a 0x / 0X prefix; the longest run of hexadecimal digits that       *)
(* follows is the value, and NaN is returned when that run is empty.       *)
IsWhiteSpace(c) == c \in {9, 10, 11, 12, 13, 32, 160}

RECURSIVE SkipWhite(_)
SkipWhite(str) ==
  IF Len(str) > 0 /\ IsWhiteSpace(str[1]) THEN SkipWhite(Tail(str)) ELSE str

RECURSIVE ParseDigits(_, _, _)
ParseDigits(str, acc, n) ==
  IF Len(str) > 0 /\ IsHexChar(str[1])
  THEN ParseDigits(Tail(str), acc * 16 + HexVal(str[1]), n + 1)
  ELSE [val |-> acc, n |-> n]

\* the value of the digits, negated after a '-'; NaN when there is no digit
ParsedNumber(neg, d) == [nan |-> d.n = 0, val |-> IF neg THEN -d.val ELSE d.val]

\* after the sign: an optional 0x / 0X, then the digits
ParseUnsigned(neg, s2) ==
  ParsedNumber(neg, ParseDigits(IF Len(s2) >= 2 /\ s2[1] = 48 /\ s2[2] \in {88, 120}
                                THEN Tail(Tail(s2)) ELSE s2, 0, 0))

\* after the white space: an optional sign
ParseSigned(s1) ==
  ParseUnsigned(Len(s1) > 0 /\ s1[1] = 45,
                IF Len(s1) > 0 /\ s1[1] \in {43, 45} THEN Tail(s1) ELSE s1)

parseInt16(str) ==
  IF Len(str) = 2 /\ IsHexChar(str[1]) /\ IsHexChar(str[2])
  THEN \* two digits: the common case, spelled out
       [nan |-> FALSE, val |-> 16 * HexVal(str[1]) + HexVal(str[2])]
  ELSE ParseSigned(SkipWhite(str))

\* sm3/utils.ts bytesToHex without the padStart of hexes
bytesToHex_unpadded(bytes) ==
  LET digit(k) == LET h == toString16(bytes[(k + 1) \div 2])
                  IN  IF Len(h) = 1 THEN (IF k % 2 = 1 THEN <<>> ELSE h)
                      ELSE <<h[2 - (k % 2)]>>
      RECURSIVE cat(_, _)
      cat(lo, hi) == IF lo > hi THEN <<>>
                     ELSE IF lo = hi THEN digit(lo)
                     ELSE cat(lo, (lo + hi) \div 2) \o cat((lo + hi) \div 2 + 1, hi)
  IN  cat(1, 2 * Len(bytes))

\* sm3/utils.ts bytesToHex: hex += hexes[bytes[i]] for every i; character k
\* (from 1) of the result is a character of hexes[bytes[ceil(k / 2)]]
bytesToHex(bytes) ==
  Tuple([k \in 1..(2 * Len(bytes)) |-> hexes(bytes[(k + 1) \div 2])[2 - (k % 2)]])

\* if (Number.isNaN(byte) || byte < 0) throw ...; array[i] = byte
CheckedByte(byte) == [bad |-> byte.nan \/ byte.val < 0, byte |-> byte.val]

\* the body of the loop of hexToBytes for byte i (from 0)
hexToBytesStep(hex, i) == CheckedByte(parseInt16(Slice(hex, i * 2, i * 2 + 2)))

\* the array hexToBytes returns once every step is made, unless one threw
BytesOfSteps(steps) ==
  IF \E i \in 1..Len(steps) : steps[i].bad THEN [ok |-> FALSE, val |-> <<>>]
  ELSE [ok |-> TRUE, val |-> Tuple([i \in 1..Len(steps) |-> steps[i].byte])]

\* hexToBytes reading only the first character of each pair
hexToBytes_firstChar(hex) ==
  IF Len(hex) % 2 # 0 THEN [ok |-> FALSE, val |-> <<>>]
  ELSE BytesOfSteps(Tuple([i \in 1..(Len(hex) \div 2) |->
                             hexToBytesStep(<<hex[2 * i - 1]>>, 0)]))

\* sm3/utils.ts hexToBytes: an odd length throws; so does the first byte whose
\* two characters parse to NaN or to a negative number
hexToBytes(hex) ==
  IF Len(hex) % 2 # 0 THEN [ok |-> FALSE, val |-> <<>>]
  ELSE BytesOfSteps(Tuple([i \in 1..(Len(hex) \div 2) |-> hexToBytesStep(hex, i - 1)]))

\* sm2/utils.ts leftPad
leftPad(input, num) ==
  IF Len(input) >= num THEN input ELSE Repeat(48, num - Len(input)) \o input

\* a value stored into a Uint8Array element: NaN is 0, others wrap modulo 256
ToUint8(parsed) == IF parsed.nan THEN 0 ELSE parsed.val % 256

\* sm2/utils.ts hexToArray
hexToArray(hexStr) ==
  LET padded == IF Len(hexStr) % 2 # 0 THEN leftPad(hexStr, Len(hexStr) + 1)
                ELSE hexStr
      wordLength == Len(padded) \div 2
  IN  Tuple([i \in 1..wordLength |->
               ToUint8(parseInt16(Slice(padded, (i - 1) * 2, (i - 1) * 2 + 2)))])

\* utils.numberToHexUnpadded: toString(16), an odd length padded with one '0'
numberToHexUnpadded(num) ==
  LET hex == toString16(num)
  IN  IF Len(hex) % 2 = 1 THEN <<48>> \o hex ELSE hex

\* the place of the first non-zero digit among d[lo..hi], hi + 1 if there is none
FirstDigit(d, lo, hi) ==
  LET nz == {k \in lo..hi : d[k] # 0}
  IN  IF nz = {} THEN hi + 1 ELSE CHOOSE k \in nz : \A j \in nz : k <= j

\* the number whose digits in the given base are d[lo..hi], most significant
\* first; leading zero digits are skipped
RECURSIVE DigitsValue(_, _, _, _)
DigitsValue(d, lo, hi, base) ==
  IF lo > hi THEN 0
  ELSE IF d[lo] = 0 THEN DigitsValue(d, FirstDigit(d, lo + 1, hi), hi, base)
  ELSE DigitsValue(d, lo, hi - 1, base) * base + d[hi]

\* utils.hexToNumber: BigInt('0x' + hex); a character that is no digit throws
hexToNumber(hex) ==
  IF \A k \in 1..Len(hex) : IsHexChar(hex[k])
  THEN [ok |-> TRUE,
        val |-> DigitsValue([k \in 1..Len(hex) |-> HexVal(hex[k])], 1, Len(hex), 16)]
  ELSE [ok |-> FALSE, val |-> 0]

\* utils.bytesToNumberBE
bytesToNumberBE(bytes) == DigitsValue(bytes, 1, Len(bytes), 256)

\* utils.numberToBytesBE(n, len): the len bytes of n, most significant first
\* (a number of the model has at most 4 significant bytes)
numberToBytesBE(n, len) ==
  Tuple([k \in 1..len |-> IF len - k > 3 THEN 0 ELSE (n \div Pow2(8 * (len - k))) % 256])

-----------------------------------------------------------------------------
(* sm2/curves/modular.ts *)

\* mod returning the remainder as it is, negative for a negative a
mod_remainder(a, b) == Rem(a, b)

\* mod(a, b): the remainder made non-negative
mod(a, b) ==
  LET result == Rem(a, b)
  IN  IF result >= 0 THEN result ELSE b + result

\* the while loop of invert (extended Euclid); y and v are carried but unused
RECURSIVE invertLoop(_, _, _, _)
invertLoop(a, b, x, u) ==
  IF a = 0 THEN [gcd |-> b, x |-> x]
  ELSE LET q == Quot(b, a)
           r == Rem(b, a)
           m == x - u * q
       IN  invertLoop(r, a, u, m)

\* invert without the test of the gcd
invert_noGcdTest(number, modulo) ==
  IF number = 0 \/ modulo <= 0 THEN [ok |-> FALSE, val |-> 0]
  ELSE [ok |-> TRUE, val |-> mod(invertLoop(mod(number, modulo), modulo, 0, 1).x, modulo)]

\* invert(number, modulo)
invert(number, modulo) ==
  IF number = 0 \/ modulo <= 0 THEN [ok |-> FALSE, val |-> 0]
  ELSE LET e == invertLoop(mod(number, modulo), modulo, 0, 1)
       IN  IF e.gcd # 1 THEN [ok |-> FALSE, val |-> 0]
           ELSE [ok |-> TRUE, val |-> mod(e.x, modulo)]

\* the fields of Field(ORDER) that compute
Field_create(ORDER, num) == mod(num, ORDER)
Field_isValid(ORDER, num) == num >= 0 /\ num < ORDER
\* is0 that finds no element to be zero
Field_is0_never(num) == FALSE
Field_is0(num) == num = 0
Field_isOdd(num) == num % 2 = 1
Field_neg(ORDER, num) == mod(-num, ORDER)
Field_sqr(ORDER, num) == mod(num * num, ORDER)
Field_add(ORDER, lhs, rhs) == mod(lhs + rhs, ORDER)
Field_sub(ORDER, lhs, rhs) == mod(lhs - rhs, ORDER)
Field_mul(ORDER, lhs, rhs) == mod(lhs * rhs, ORDER)
Field_mulN(lhs, rhs) == lhs * rhs
Field_inv(ORDER, num) == invert(num, ORDER)
Field_div(ORDER, lhs, rhs) ==
  LET i == invert(rhs, ORDER)
  IN  [ok |-> i.ok, val |-> IF i.ok THEN mod(lhs * i.val, ORDER) ELSE 0]

\* the while loop of FpPow
RECURSIVE FpPowLoop(_, _, _, _)
FpPowLoop(ORDER, p, d, power) ==
  IF power <= 0 THEN p
  ELSE FpPowLoop(ORDER,
                 IF power % 2 = 1 THEN Field_mul(ORDER, p, d) ELSE p,
                 Field_sqr(ORDER, d), power \div 2)

\* FpPow(f, num, power) for power >= 0 (a negative power throws)
FpPow(ORDER, num, power) ==
  IF power = 0 THEN 1
  ELSE IF power = 1 THEN num
  ELSE FpPowLoop(ORDER, 1, num, power)

Field_pow(ORDER, num, power) == FpPow(ORDER, num, power)

\* FpSqrt(P) for P = 3 (mod 4): sqrt3mod4
sqrt3mod4(ORDER, n) ==
  LET root == Field_pow(ORDER, n, (ORDER + 1) \div 4)
  IN  IF Field_sqr(ORDER, root) # n THEN [ok |-> FALSE, val |-> 0]
      ELSE [ok |-> TRUE, val |-> root]

\* pow(num, power, modulo) for power >= 0 and modulo > 0
RECURSIVE powLoop(_, _, _, _)
powLoop(res, num, power, modulo) ==
  IF power <= 0 THEN res
  ELSE powLoop(IF power % 2 = 1 THEN Rem(res * num, modulo) ELSE res,
               Rem(num * num, modulo), power \div 2, modulo)

pow(num, power, modulo) == IF modulo = 1 THEN 0 ELSE powLoop(1, num, power, modulo)

\* what a square root gives: a value, an error thrown, or a loop that never ends
SqrtReturns(root) == [ok |-> TRUE, val |-> root, hangs |-> FALSE]
SqrtThrows == [ok |-> FALSE, val |-> 0, hangs |-> FALSE]
SqrtHangs == [ok |-> FALSE, val |-> 0, hangs |-> TRUE]

\* the root returned without the test of its square
CheckedRoot_unchecked(ORDER, root, n) == SqrtReturns(root)

\* if (!Fp.eql(Fp.sqr(root), n)) throw new Error('Cannot find square root')
CheckedRoot(ORDER, root, n) ==
  IF Field_sqr(ORDER, root) # n THEN SqrtThrows ELSE SqrtReturns(root)

\* FpSqrt(P) for P = 5 (mod 8): sqrt5mod8, from nv = n * v on
sqrt5mod8_nv(ORDER, n, v, nv) ==
  CheckedRoot(ORDER,
              Field_mul(ORDER, nv,
                        Field_sub(ORDER, Field_mul(ORDER, Field_mul(ORDER, nv, 2), v), 1)),
              n)

sqrt5mod8_v(ORDER, n, v) == sqrt5mod8_nv(ORDER, n, v, Field_mul(ORDER, n, v))

sqrt5mod8(ORDER, n) ==
  sqrt5mod8_v(ORDER, n, Field_pow(ORDER, Field_mul(ORDER, n, 2), (ORDER - 5) \div 8))

\* tonelliShanks(P): Q and S with P - 1 = Q * 2^S and Q odd
RECURSIVE tonelliQS(_, _)
tonelliQS(Q, S) == IF Rem(Q, 2) = 0 THEN tonelliQS(Q \div 2, S + 1) ELSE [Q |-> Q, S |-> S]

\* tonelliShanks(P): the first Z from 2 with Z^((P-1)/2) = P - 1, or P
RECURSIVE tonelliZ(_, _)
tonelliZ(P, Z) ==
  IF Z < P /\ pow(Z, (P - 1) \div 2, P) # P - 1 THEN tonelliZ(P, Z + 1) ELSE Z

\* a === b between the results of two field operations: these are two JSBI
\* objects, and === on objects is identity, whatever the numbers are
SameObject(a, b) == FALSE

\* JSBI.leftShift(1, k): a negative k shifts to the right
leftShift1(k) == IF k >= 0 THEN Pow2(k) ELSE Shr(1, -k)

\* tonelliSlow: the for loop over m and t2
RECURSIVE tonelliM(_, _, _, _)
tonelliM(P, t2, m, r) ==
  IF m < r /\ t2 # 1 THEN tonelliM(P, Field_sqr(P, t2), m + 1, r) ELSE m

\* tonelliSlow: the end of an iteration of the while loop, ge being computed
tonelliUpdate(P, st, m, ge) ==
  [r |-> m, g |-> Field_sqr(P, ge), x |-> Field_mul(P, st.x, ge),
   b |-> Field_mul(P, st.b, Field_sqr(P, ge))]

tonelliGe(P, st, m) ==
  tonelliUpdate(P, st, m, Field_pow(P, st.g, leftShift1(st.r - m - 1)))

\* one iteration of the while loop of tonelliSlow that does not return
tonelliStep(P, st) == tonelliGe(P, st, tonelliM(P, Field_sqr(P, st.b), 1, st.r))

\* tonelliSlow: r, g, x and b before the while loop
tonelliLocals(P, n, qs, Z) ==
  [r |-> qs.S, g |-> Field_pow(P, Field_mul(P, 1, Z), qs.Q),
   x |-> Field_pow(P, n, (qs.Q + 1) \div 2), b |-> Field_pow(P, n, qs.Q)]

\* tonelliSlow up to the while loop: thrown when n^((P-1)/2) === -1
tonelliStart(P, n) ==
  [throws |-> SameObject(Field_pow(P, n, (P - 1) \div 2), Field_neg(P, 1)),
   st |-> tonelliLocals(P, n, tonelliQS(P - 1, 0), tonelliZ(P, 2))]

\* the while loop of tonelliSlow; an iteration that changes none of r, g, x
\* and b is followed by the same iteration for ever
RECURSIVE tonelliLoop(_, _)
tonelliAgain(P, st, next) == IF next = st THEN SqrtHangs ELSE tonelliLoop(P, next)

tonelliLoop(P, st) ==
  IF st.b = 1 THEN SqrtReturns(st.x)
  ELSE IF st.b = 0 THEN SqrtReturns(0)
  ELSE tonelliAgain(P, st, tonelliStep(P, st))

tonelliStarted(P, start) == IF start.throws THEN SqrtThrows ELSE tonelliLoop(P, start.st)

tonelliSlow(P, n) == tonelliStarted(P, tonelliStart(P, n))

\* Field(ORDER).sqrt(n) = FpSqrt(ORDER)(f, n)
Field_sqrt(ORDER, n) ==
  IF Rem(ORDER, 4) = 3
  THEN CheckedRoot(ORDER, Field_pow(ORDER, n, (ORDER + 1) \div 4), n)
  ELSE IF Rem(ORDER, 8) = 5 THEN sqrt5mod8(ORDER, n)
  ELSE tonelliSlow(ORDER, n)

\* a slot of new Array(n): empty until it is assigned
EmptySlot == [def |-> FALSE, val |-> 0]
Slot(v) == [def |-> TRUE, val |-> v]

\* FpInvertBatch: nums.reduce from index i on, tmp[i] = acc for a non-zero num
RECURSIVE batchForward(_, _, _, _, _)
batchForward(ORDER, nums, i, acc, tmp) ==
  IF i > Len(nums) THEN [acc |-> acc, tmp |-> tmp]
  ELSE IF Field_is0(nums[i]) THEN batchForward(ORDER, nums, i + 1, acc, tmp)
  ELSE batchForward(ORDER, nums, i + 1, Field_mul(ORDER, acc, nums[i]),
                    [tmp EXCEPT ![i] = Slot(acc)])

\* FpInvertBatch: nums.reduceRight from index i down
RECURSIVE batchBackward(_, _, _, _, _)
batchBackward(ORDER, nums, i, acc, tmp) ==
  IF i < 1 THEN tmp
  ELSE IF Field_is0(nums[i]) THEN batchBackward(ORDER, nums, i - 1, acc, tmp)
  ELSE batchBackward(ORDER, nums, i - 1, Field_mul(ORDER, acc, nums[i]),
                     [tmp EXCEPT ![i] = Slot(Field_mul(ORDER, acc, tmp[i].val))])

\* FpInvertBatch after the one call of f.inv, which may have thrown
batchInverted(ORDER, nums, tmp, inverted) ==
  [ok |-> inverted.ok, hangs |-> FALSE, invCalls |-> 1,
   val |-> IF inverted.ok THEN batchBackward(ORDER, nums, Len(nums), inverted.val, tmp)
           ELSE <<>>]

batchMultiplied(ORDER, nums, fw) ==
  batchInverted(ORDER, nums, fw.tmp, Field_inv(ORDER, fw.acc))

\* FpInvertBatch(f, nums) for f = Field(ORDER)
FpInvertBatch(ORDER, nums) ==
  batchMultiplied(ORDER, nums,
                  batchForward(ORDER, nums, 1, 1, Repeat(EmptySlot, Len(nums))))

\* x.toString(2).length
RECURSIVE toString2Length(_)
toString2Length(x) == IF x < 2 THEN 1 ELSE 1 + toString2Length(x \div 2)

-----------------------------------------------------------------------------
(* SM3 (src/sm2/sm3 is not part of the sources at hand).  The digest is    *)
(* carried by a 32-byte function of the whole message, order included.     *)

HashLen == 32

\* the map h |-> (h * mul + add) % 32749 that bytes lo..hi of m apply to the
\* chaining value, byte by byte: h |-> (h * 131 + m[i] + 1) % 32749
RECURSIVE Absorb(_, _, _)
Absorb(m, lo, hi) ==
  IF lo > hi THEN [mul |-> 1, add |-> 0]
  ELSE IF lo = hi THEN [mul |-> 131, add |-> m[lo] + 1]
  ELSE LET mid == (lo + hi) \div 2
           L   == Absorb(m, lo, mid)
           R   == Absorb(m, mid + 1, hi)
       IN  [mul |-> (L.mul * R.mul) % 32749, add |-> (L.add * R.mul + R.add) % 32749]

sm3(m) ==
  LET f == Absorb(m, 1, Len(m))
      h == (7 * f.mul + f.add) % 32749
  IN  Tuple([j \in 1..HashLen |-> ((h + 1) * (2 * j + 1) + j * j) % 256])

\* utf8ToArray on a string of code units below 128
utf8ToArray(str) == str

-----------------------------------------------------------------------------
(* kdf.ts *)

\* the counter as written by nextT: 4 bytes, big-endian
ctShift(ct) ==
  << Shr(ct, 24) % 256, Shr(ct, 16) % 256, Shr(ct, 8) % 256, ct % 256 >>

\* nextT: t = sm3(z || ct || IV)
nextT(z, ct, IV) == sm3(z \o ctShift(ct) \o IV)

\* the for loop of kdf; i and offset count from 0 as in the code
RECURSIVE kdfLoop(_, _, _, _, _, _, _)
kdfLoop(z, IV, msg, i, ct, offset, t) ==
  IF i >= Len(msg) THEN msg
  ELSE LET refill == (offset = Len(t))
           t2     == IF refill THEN nextT(z, ct, IV) ELSE t
           ct2    == IF refill THEN ct + 1 ELSE ct
           off2   == IF refill THEN 0 ELSE offset
       IN  kdfLoop(z, IV, [msg EXCEPT ![i + 1] = t2[off2 + 1] % 256],
                   i + 1, ct2, off2 + 1, t2)

kdf_ct0(z, keylen, ivNull, iv) ==
  LET IV == IF ivNull THEN <<>> ELSE iv
  IN  kdfLoop(z, IV, Repeat(0, keylen), 0, 1, 0, nextT(z, 0, IV))

\* kdf(z, keylen, iv): iv == null is ivNull
kdf(z, keylen, ivNull, iv) ==
  LET IV  == IF ivNull THEN <<>> ELSE iv
      msg == Repeat(0, keylen)
  IN  kdfLoop(z, IV, msg, 0, 2, 0, nextT(z, 1, IV))

-----------------------------------------------------------------------------
(* mapHashToField and its helpers (sm2/curves/modular.ts) *)

\* bit length of the library's n (and p), which CURVE_n (CURVE_p) stands for
CURVE_nBitLength == 256

\* group order of the curve of the model
CURVE_n == 7

\* fieldOrder.toString(2).length; the curve order keeps its 256 bits
orderBitLength(fieldOrder) ==
  IF fieldOrder = CURVE_n THEN CURVE_nBitLength ELSE toString2Length(fieldOrder)

\* Math.ceil(a / b) for a >= 0, b > 0
Ceil(a, b) == (a + b - 1) \div b

getFieldBytesLength(fieldOrder) == Ceil(orderBitLength(fieldOrder), 8)

getMinHashLength(fieldOrder) ==
  LET length == getFieldBytesLength(fieldOrder)
  IN  length + Ceil(length, 2)

\* mapHashToField reducing modulo fieldOrder and adding nothing
mapHashToField_plainMod(key, fieldOrder) ==
  IF Len(key) < 16 \/ Len(key) < getMinHashLength(fieldOrder) \/ Len(key) > 1024
  THEN [ok |-> FALSE, val |-> <<>>]
  ELSE [ok |-> TRUE,
        val |-> numberToBytesBE(mod(bytesToNumberBE(key), fieldOrder),
                                getFieldBytesLength(fieldOrder))]

\* mapHashToField(key, fieldOrder) with isLE = false
mapHashToField(key, fieldOrder) ==
  LET len      == Len(key)
      fieldLen == getFieldBytesLength(fieldOrder)
      minLen   == getMinHashLength(fieldOrder)
      num      == bytesToNumberBE(key)
      reduced  == mod(num, fieldOrder - 1) + 1
  IN  IF len < 16 \/ len < minLen \/ len > 1024
      THEN [ok |-> FALSE, val |-> <<>>]
      ELSE [ok |-> TRUE, val |-> numberToBytesBE(reduced, fieldLen)]

-----------------------------------------------------------------------------
(* The curve sm2Curve (sm2/utils.ts) and the operations of                 *)
(* @noble/curves' weierstrass ProjectivePoint that the sources call.  The  *)
(* group law is the affine one; a point is [inf, x, y], and the affine     *)
(* coordinates of the point at infinity are (0, 0) as toAffine gives them. *)

CURVE_p == 11
CURVE_a == 7
CURVE_b == 2
CURVE_Gx == 7
CURVE_Gy == 3
\* byte length of a field element: 256 bits
Fp_BYTES == 32

ZERO == [inf |-> TRUE, x |-> 0, y |-> 0]
BASE == [inf |-> FALSE, x |-> CURVE_Gx, y |-> CURVE_Gy]
PointFail == [ok |-> FALSE, pt |-> ZERO]

\* x^3 + a x + b
weierstrassEquation(x) ==
  LET x2 == Field_sqr(CURVE_p, x)
      x3 == Field_mul(CURVE_p, x2, x)
  IN  Field_add(CURVE_p, Field_add(CURVE_p, x3, Field_mul(CURVE_p, x, CURVE_a)), CURVE_b)

\* assertValidity fails for the point at infinity and for a point off the curve
isValidPoint(pt) ==
  /\ ~pt.inf
  /\ Field_isValid(CURVE_p, pt.x) /\ Field_isValid(CURVE_p, pt.y)
  /\ Field_sqr(CURVE_p, pt.y) = weierstrassEquation(pt.x)

negate(pt) == IF pt.inf THEN pt ELSE [pt EXCEPT !.y = Field_neg(CURVE_p, pt.y)]

\* the point on the chord or tangent of slope lam through p1, with abscissa x3
ThirdPoint(p1, lam, x3) ==
  [inf |-> FALSE, x |-> x3,
   y |-> Field_sub(CURVE_p, Field_mul(CURVE_p, lam, Field_sub(CURVE_p, p1.x, x3)), p1.y)]

\* the sum of p1 and p2 (p2 = p1 for a doubling) given the slope lam
SumOnLine(p1, p2, lam) ==
  ThirdPoint(p1, lam,
             Field_sub(CURVE_p, Field_sub(CURVE_p, Field_sqr(CURVE_p, lam), p1.x), p2.x))

double(pt) ==
  IF pt.inf \/ pt.y = 0 THEN ZERO
  ELSE SumOnLine(pt, pt,
         Field_div(CURVE_p,
                   Field_add(CURVE_p, Field_mul(CURVE_p, 3, Field_sqr(CURVE_p, pt.x)), CURVE_a),
                   Field_mul(CURVE_p, 2, pt.y)).val)

add(p1, p2) ==
  IF p1.inf THEN p2
  ELSE IF p2.inf THEN p1
  ELSE IF p1.x = p2.x THEN (IF p1.y = p2.y THEN double(p1) ELSE ZERO)
  ELSE SumOnLine(p1, p2,
         Field_div(CURVE_p, Field_sub(CURVE_p, p2.y, p1.y),
                   Field_sub(CURVE_p, p2.x, p1.x)).val)

\* scalar * pt, the bits of the scalar taken most significant first
LadderStep(d, pt, bit) == IF bit = 1 THEN add(d, pt) ELSE d

RECURSIVE ladder(_, _)
ladder(pt, scalar) ==
  IF scalar = 0 THEN ZERO
  ELSE LadderStep(double(ladder(pt, scalar \div 2)), pt, scalar % 2)

\* ProjectivePoint.multiply(scalar): the scalar must satisfy 0 < scalar < n
multiply(pt, scalar) ==
  IF scalar <= 0 \/ scalar >= CURVE_n THEN PointFail
  ELSE [ok |-> TRUE, pt |-> ladder(pt, scalar)]

\* ProjectivePoint.toRawBytes(isCompressed)
toRawBytes(pt, isCompressed) ==
  LET x == numberToBytesBE(pt.x, Fp_BYTES)
  IN  IF isCompressed THEN <<IF pt.y % 2 = 0 THEN 2 ELSE 3>> \o x
      ELSE <<4>> \o x \o numberToBytesBE(pt.y, Fp_BYTES)

\* the point (x, y) once assertValidity has passed
ValidPoint(x, y) ==
  IF isValidPoint([inf |-> x = 0 /\ y = 0, x |-> x, y |-> y])
  THEN [ok |-> TRUE, pt |-> [inf |-> FALSE, x |-> x, y |-> y]]
  ELSE PointFail

\* compressed form: y is the square root r of x^3 + a x + b with the parity of
\* the head byte
Decompress(head, x, r) ==
  IF x < CURVE_p /\ r.ok
  THEN ValidPoint(x, IF (r.val % 2 = 1) # (head % 2 = 1)
                     THEN Field_neg(CURVE_p, r.val) ELSE r.val)
  ELSE PointFail

\* the compressed form with abscissa x
DecompressX(head, x) ==
  Decompress(head, x, sqrt3mod4(CURVE_p, weierstrassEquation(x)))

\* fromBytes and assertValidity on the decoded bytes
PointOfBytes(bytes) ==
  IF Len(bytes) = 1 + Fp_BYTES /\ bytes[1] \in {2, 3}
  THEN DecompressX(bytes[1], bytesToNumberBE(SubSeq(bytes, 2, 1 + Fp_BYTES)))
  ELSE IF Len(bytes) = 1 + 2 * Fp_BYTES /\ bytes[1] = 4
  THEN ValidPoint(bytesToNumberBE(SubSeq(bytes, 2, 1 + Fp_BYTES)),
                  bytesToNumberBE(SubSeq(bytes, 2 + Fp_BYTES, 1 + 2 * Fp_BYTES)))
  ELSE PointFail

DecodedPoint(b) == IF ~b.ok THEN PointFail ELSE PointOfBytes(b.val)

\* ProjectivePoint.fromHex(hex): decode, then assertValidity
fromHex(hex) == DecodedPoint(hexToBytes(hex))

\* the encoding of the public point, when multiply did not throw
EncodedPoint(P, isCompressed) ==
  IF ~P.ok THEN [ok |-> FALSE, val |-> <<>>]
  ELSE [ok |-> TRUE, val |-> toRawBytes(P.pt, isCompressed)]

\* sm2Curve.getPublicKey(privateKey, isCompressed) for a Uint8Array privateKey
getPublicKey(privateKey, isCompressed) ==
  IF Len(privateKey) # Ceil(CURVE_nBitLength, 8) THEN [ok |-> FALSE, val |-> <<>>]
  ELSE EncodedPoint(multiply(BASE, bytesToNumberBE(privateKey)), isCompressed)

-----------------------------------------------------------------------------
(* sm2/utils.ts generateKeyPairHex *)

\* sm2Curve.utils.randomPrivateKey() given what CURVE.randomBytes returned
randomPrivateKey(rnd) == mapHashToField(rnd, CURVE_n)

KeyPairFail == [ok |-> FALSE, privateKey |-> <<>>, publicKey |-> <<>>]

\* lines 88-90: both keys in hex, padded to 64 characters
KeyPairHex(privateKey, publicKey) ==
  IF ~publicKey.ok THEN KeyPairFail
  ELSE [ok |-> TRUE,
        privateKey |-> leftPad(bytesToHex(privateKey), 64),
        publicKey  |-> leftPad(bytesToHex(publicKey.val), 64)]

\* lines 87-90 for the private key that randomPrivateKey returned
KeyPairOfPrivate(privateKey, isCompressed) ==
  IF ~privateKey.ok THEN KeyPairFail
  ELSE KeyPairHex(privateKey.val, getPublicKey(privateKey.val, isCompressed))

\* generateKeyPairHex asking for the compressed encoding of the public key
generateKeyPairHex_compressed(rnd) == KeyPairOfPrivate(randomPrivateKey(rnd), TRUE)

\* generateKeyPairHex(); rnd is the output of the curve's randomBytes
generateKeyPairHex(rnd) == KeyPairOfPrivate(randomPrivateKey(rnd), FALSE)

-----------------------------------------------------------------------------
(* sm2/utils.ts compressPublicKeyHex *)

\* new BigInteger(str, 16).mod(m) for the characters lo..hi of a string of
\* hexadecimal digits: the number is too wide for the integers at hand, so it
\* is reduced half by half, the left half weighing 16^(length of the right one)
RECURSIVE BigIntegerMod(_, _, _, _)
BigIntegerMod(str, lo, hi, m) ==
  IF lo > hi THEN 0
  ELSE IF lo = hi THEN HexVal(str[lo]) % m
  ELSE (BigIntegerMod(str, lo, (lo + hi) \div 2, m) * pow(16, hi - (lo + hi) \div 2, m)
        + BigIntegerMod(str, (lo + hi) \div 2 + 1, hi, m)) % m

\* prefix + xHex, the prefix being '02' when y mod 2 equals 0 and '03' otherwise
CompressedKey(xHex, yMod2) ==
  [ok |-> TRUE, val |-> (IF yMod2 = 0 THEN <<48, 50>> ELSE <<48, 51>>) \o xHex]

\* lines 99-105 for len = (s.length - 2) / 2
CompressedOfLen(s, len) ==
  CompressedKey(Slice(s, 2, 2 + len),
                BigIntegerMod(Slice(s, len + 2, len + len + 2), 1, len, 2))

\* compressPublicKeyHex with the two prefixes exchanged
compressPublicKeyHex_swapped(s) ==
  IF Len(s) # 130 THEN [ok |-> FALSE, val |-> <<>>]
  ELSE CompressedKey(Slice(s, 2, 66), 1 - BigIntegerMod(Slice(s, 66, 130), 1, 64, 2))

\* compressPublicKeyHex(s)
compressPublicKeyHex(s) ==
  IF Len(s) # 130 THEN [ok |-> FALSE, val |-> <<>>]
  ELSE CompressedOfLen(s, (Len(s) - 2) \div 2)

-----------------------------------------------------------------------------
(* getZ (sm2/index.ts): SM3(ENTL || ID || a || b || Gx || Gy || Px || Py)  *)

Coord(v) == numberToBytesBE(v, Fp_BYTES)

\* the digest for the decoded public key P and the bytes of the identity
ZOfPoint(P, ID) ==
  [ok |-> P.ok,
   val |-> IF P.ok
           THEN sm3(<< Shr(Len(ID) * 8, 8) % 256, (Len(ID) * 8) % 256 >> \o ID
                    \o Coord(CURVE_a) \o Coord(CURVE_b) \o Coord(CURVE_Gx)
                    \o Coord(CURVE_Gy) \o Coord(P.pt.x) \o Coord(P.pt.y))
           ELSE <<>>]

getZ(publicKey, id) == ZOfPoint(fromHex(publicKey), utf8ToArray(id))

-----------------------------------------------------------------------------
(* Key agreement: calculateSharedKey *)

\* a & b for non-negative a, b
RECURSIVE BitAnd(_, _)
BitAnd(a, b) ==
  IF a = 0 \/ b = 0 THEN 0
  ELSE 2 * BitAnd(a \div 2, b \div 2) + (IF a % 2 = 1 /\ b % 2 = 1 THEN 1 ELSE 0)

\* 2^w and 2^w - 1 with w = ceil(ceil(log2 n) / 2) - 1, which is 1 for CURVE_n
wPow2 == 2
wPow2Sub1 == 1

SharedKeyFail ==
  [ok |-> FALSE, KA |-> <<>>, kdfInput |-> <<>>, U |-> ZERO, Uok |-> FALSE,
   tA |-> 0, x1_ |-> 0, x2_ |-> 0]

\* line 50 and the return: the key derived from xU || yU || ZA || ZB
sharedKeyDerived(U, inp, tA, x1_, x2_, sharedKeyLength) ==
  [ok |-> TRUE, KA |-> kdf(inp, sharedKeyLength, TRUE, <<>>), kdfInput |-> inp,
   U |-> U, Uok |-> TRUE, tA |-> tA, x1_ |-> x1_, x2_ |-> x2_]

\* lines 48-50 for the point U, when multiply did not throw
sharedKeyOfU(U, ZA, ZB, tA, x1_, x2_, sharedKeyLength) ==
  IF ~U.ok
  THEN [SharedKeyFail EXCEPT !.tA = tA, !.x1_ = x1_, !.x2_ = x2_]
  ELSE sharedKeyDerived(U.pt,
         hexToArray(leftPad(numberToHexUnpadded(U.pt.x), 64))
           \o hexToArray(leftPad(numberToHexUnpadded(U.pt.y), 64)) \o ZA \o ZB,
         tA, x1_, x2_, sharedKeyLength)

\* line 44: U = (RB.multiply(x2_) + PB).multiply(tA), M being RB.multiply(x2_)
sharedKeyOfM(M, PB, ZA, ZB, tA, x1_, x2_, sharedKeyLength) ==
  IF ~M.ok THEN SharedKeyFail
  ELSE sharedKeyOfU(multiply(add(M.pt, PB), tA), ZA, ZB, tA, x1_, x2_, sharedKeyLength)

\* lines 37-44 given x1_ and x2_
sharedKeyOfScalars(RB, PB, ZA, ZB, rA, dA, x1_, x2_, sharedKeyLength) ==
  sharedKeyOfM(multiply(RB, x2_), PB, ZA, ZB,
               Field_add(CURVE_n, dA, Field_mulN(x1_, rA)), x1_, x2_, sharedKeyLength)

\* lines 27-44 for the decoded points, digests and scalars
sharedKeyOfParsed(RA, RB, PB, ZA0, ZB0, rA, dA, sharedKeyLength, swap) ==
  IF ~(RA.ok /\ RB.ok /\ PB.ok /\ ZA0.ok /\ ZB0.ok /\ rA.ok /\ dA.ok)
  THEN SharedKeyFail
  ELSE sharedKeyOfScalars(RB.pt, PB.pt,
         IF swap THEN ZB0.val ELSE ZA0.val, IF swap THEN ZA0.val ELSE ZB0.val,
         rA.val, dA.val,
         wPow2 + BitAnd(RA.pt.x, wPow2Sub1),
         Field_add(CURVE_n, wPow2, BitAnd(RB.pt.x, wPow2Sub1)),
         sharedKeyLength)

\* sharedKeySteps with RA computed as rA * G instead of decoded from the
\* ephemeral public key of the caller
sharedKeySteps_recomputed(keypairA, ephemeralKeypairA, publicKeyB, ephemeralPublicKeyB, sharedKeyLength, swap, idA, idB) ==
  sharedKeyOfParsed(multiply(BASE, hexToNumber(ephemeralKeypairA.privateKey).val),
                    fromHex(ephemeralPublicKeyB),
                    fromHex(publicKeyB), getZ(keypairA.publicKey, idA),
                    getZ(publicKeyB, idB), hexToNumber(ephemeralKeypairA.privateKey),
                    hexToNumber(keypairA.privateKey), sharedKeyLength, swap)

\* everything calculateSharedKey computes, given which Z comes first
sharedKeySteps(keypairA, ephemeralKeypairA, publicKeyB, ephemeralPublicKeyB, sharedKeyLength, swap, idA, idB) ==
  sharedKeyOfParsed(fromHex(ephemeralKeypairA.publicKey), fromHex(ephemeralPublicKeyB),
                    fromHex(publicKeyB), getZ(keypairA.publicKey, idA),
                    getZ(publicKeyB, idB), hexToNumber(ephemeralKeypairA.privateKey),
                    hexToNumber(keypairA.privateKey), sharedKeyLength, swap)

\* calculateSharedKey that never exchanges ZA and ZB
calculateSharedKey_noSwap(keypairA, ephemeralKeypairA, publicKeyB, ephemeralPublicKeyB, sharedKeyLength, isRecipient, idA, idB) ==
  sharedKeySteps(keypairA, ephemeralKeypairA, publicKeyB, ephemeralPublicKeyB,
                 sharedKeyLength, FALSE, idA, idB)

calculateSharedKey(keypairA, ephemeralKeypairA, publicKeyB, ephemeralPublicKeyB, sharedKeyLength, isRecipient, idA, idB) ==
  sharedKeySteps(keypairA, ephemeralKeypairA, publicKeyB, ephemeralPublicKeyB,
                 sharedKeyLength, isRecipient, idA, idB)

\* the x coordinate of the shared point, when multiply did not throw
ecdhOutput(shared) ==
  IF ~shared.ok THEN [ok |-> FALSE, val |-> <<>>]
  ELSE [ok |-> TRUE, val |-> hexToArray(leftPad(numberToHexUnpadded(shared.pt.x), 64))]

\* d * P for the decoded point and scalar
ecdhMultiply(point, d) ==
  IF ~(point.ok /\ d.ok) THEN [ok |-> FALSE, val |-> <<>>]
  ELSE ecdhOutput(multiply(point.pt, d.val))

\* ecdh multiplying the base point, whatever public key it is given
ecdh_basePoint(privateKeyA, publicKeyB) ==
  ecdhMultiply([ok |-> TRUE, pt |-> BASE], hexToNumber(privateKeyA))

\* ecdh(privateKeyA, publicKeyB) (sm2/index.ts): the x coordinate of d * P
ecdh(privateKeyA, publicKeyB) ==
  ecdhMultiply(fromHex(publicKeyB), hexToNumber(privateKeyA))

-----------------------------------------------------------------------------
(* SM4 (sm4 is not part of the sources at hand; the cipher, its modes and  *)
(* its padding follow the specification's section 4.D).  A 32-bit word is  *)
(* the sequence of its 32 bits, most significant first.                    *)

\* the S-box of SM4
Sbox ==
  <<
     214, 144, 233, 254, 204, 225, 61, 183, 22, 182, 20, 194, 40, 251, 44, 5,
     43, 103, 154, 118, 42, 190, 4, 195, 170, 68, 19, 38, 73, 134, 6, 153,
     156, 66, 80, 244, 145, 239, 152, 122, 51, 84, 11, 67, 237, 207, 172, 98,
     228, 179, 28, 169, 201, 8, 232, 149, 128, 223, 148, 250, 117, 143, 63, 166,
     71, 7, 167, 252, 243, 115, 23, 186, 131, 89, 60, 25, 230, 133, 79, 168,
     104, 107, 129, 178, 113, 100, 218, 139, 248, 235, 15, 75, 112, 86, 157, 53,
     30, 36, 14, 94, 99, 88, 209, 162, 37, 34, 124, 59, 1, 33, 120, 135,
     212, 0, 70, 87, 159, 211, 39, 82, 76, 54, 2, 231, 160, 196, 200, 158,
     234, 191, 138, 210, 64, 199, 56, 181, 163, 247, 242, 206, 249, 97, 21, 161,
     224, 174, 93, 164, 155, 52, 26, 85, 173, 147, 50, 48, 245, 140, 177, 227,
     29, 246, 226, 46, 130, 102, 202, 96, 192, 41, 35, 171, 13, 83, 78, 111,
     213, 219, 55, 69, 222, 253, 142, 47, 3, 255, 106, 114, 109, 108, 91, 81,
     141, 27, 175, 146, 187, 221, 188, 127, 17, 217, 92, 65, 31, 16, 90, 216,
     10, 193, 49, 136, 165, 205, 123, 189, 45, 116, 208, 18, 184, 229, 180, 176,
     137, 105, 151, 74, 12, 150, 119, 126, 101, 185, 241, 9, 197, 110, 198, 132,
     24, 240, 125, 236, 58, 220, 77, 32, 121, 238, 95, 62, 215, 203, 57, 72
  >>

BitWeight == <<128, 64, 32, 16, 8, 4, 2, 1>>

\* the 8 bits of a byte, and the byte of bits 8j-7 .. 8j of a word
BitsOfByte(b) == Tuple([k \in 1..8 |-> (b \div BitWeight[k]) % 2])
ByteOfWord(w, j) ==
  LET o == 8 * (j - 1)
  IN  128 * w[o + 1] + 64 * w[o + 2] + 32 * w[o + 3] + 16 * w[o + 4]
        + 8 * w[o + 5] + 4 * w[o + 6] + 2 * w[o + 7] + w[o + 8]

\* the big-endian word of bytes[off+1 .. off+4], and the 4 bytes of a word
WordAt(bytes, off) ==
  BitsOfByte(bytes[off + 1]) \o BitsOfByte(bytes[off + 2])
    \o BitsOfByte(bytes[off + 3]) \o BitsOfByte(bytes[off + 4])
BytesOfWord(w) == <<ByteOfWord(w, 1), ByteOfWord(w, 2), ByteOfWord(w, 3), ByteOfWord(w, 4)>>

XorW(x, y) == Tuple([k \in 1..32 |-> (x[k] + y[k]) % 2])
Xor4(x, y, z, u) == Tuple([k \in 1..32 |-> (x[k] + y[k] + z[k] + u[k]) % 2])
XorBytes(x, y) ==
  Tuple([k \in 1..Len(x) |->
           ByteOfWord(Tuple([i \in 1..8 |-> (BitsOfByte(x[k])[i] + BitsOfByte(y[k])[i]) % 2]), 1)])

\* rotate a word left by k bits
rotl(x, k) == Tuple([i \in 1..32 |-> x[((i - 1 + k) % 32) + 1]])

\* tau: the S-box on each byte of a word
byteSub(x) ==
  BitsOfByte(Sbox[ByteOfWord(x, 1) + 1]) \o BitsOfByte(Sbox[ByteOfWord(x, 2) + 1])
    \o BitsOfByte(Sbox[ByteOfWord(x, 3) + 1]) \o BitsOfByte(Sbox[ByteOfWord(x, 4) + 1])

\* L(x) = x ^ rotl(x, 2) ^ rotl(x, 10) ^ rotl(x, 18) ^ rotl(x, 24)
l1(x) ==
  Tuple([i \in 1..32 |->
           (x[i] + x[((i + 1) % 32) + 1] + x[((i + 9) % 32) + 1]
              + x[((i + 17) % 32) + 1] + x[((i + 23) % 32) + 1]) % 2])

\* L'(x) = x ^ rotl(x, 13) ^ rotl(x, 23)
l2(x) == XorW(XorW(x, rotl(x, 13)), rotl(x, 23))

\* FK = (A3B1BAC6, 56AA3350, 677D9197, B27022DC)
FK ==
  << WordAt(<<163, 177, 186, 198>>, 0), WordAt(<<86, 170, 51, 80>>, 0),
     WordAt(<<103, 125, 145, 151>>, 0), WordAt(<<178, 112, 34, 220>>, 0) >>

\* CK_i: byte j is (4 i + j) * 7 mod 256, i = 0..31, j = 0..3
CK(i) == WordAt([j \in 1..4 |-> ((4 * i + j - 1) * 7) % 256], 0)

\* round keys rk_0 .. rk_31 (as rk[1] .. rk[32]) from the window K_i .. K_i+3;
\* the length test has TLC evaluate a round before it enters the next
RECURSIVE keyRounds(_, _, _)
keyRounds(K, i, rk) ==
  IF i = 32 THEN rk
  ELSE LET k == XorW(K[1], l2(byteSub(Xor4(K[2], K[3], K[4], CK(i)))))
           r == Append(rk, k)
       IN  IF Len(r) = i + 1 THEN keyRounds(<<K[2], K[3], K[4], k>>, i + 1, r) ELSE <<>>

Reverse(seq) == Tuple([k \in 1..Len(seq) |-> seq[Len(seq) + 1 - k]])

\* key schedule; decryption takes the round keys in reverse order
sms4KeyExt(key, decrypt) ==
  LET rk == keyRounds([j \in 1..4 |-> XorW(WordAt(key, 4 * (j - 1)), FK[j])], 0, <<>>)
  IN  IF decrypt THEN Reverse(rk) ELSE rk

\* the 32 rounds on the window X_i .. X_i+3, each evaluated before the next
RECURSIVE cryptRounds(_, _, _)
cryptRounds(X, rk, i) ==
  IF i = 32 THEN X
  ELSE LET x == XorW(X[1], l1(byteSub(Xor4(X[2], X[3], X[4], rk[i + 1]))))
       IN  IF Len(x) = 32 THEN cryptRounds(<<X[2], X[3], X[4], x>>, rk, i + 1) ELSE <<>>

\* one 16-byte block: the output is the last four words in reverse order
sms4Crypt(input, roundKey) ==
  LET X == cryptRounds([j \in 1..4 |-> WordAt(input, 4 * (j - 1))], roundKey, 0)
  IN  BytesOfWord(X[4]) \o BytesOfWord(X[3]) \o BytesOfWord(X[2]) \o BytesOfWord(X[1])

BLOCK == 16

Sm4Fail(err) == [ok |-> FALSE, err |-> err, val |-> <<>>]

\* PKCS#7 (pkcs#5) padding: 1 to 16 bytes, each holding their number
pkcs7Pad(m) ==
  LET n == BLOCK - (Len(m) % BLOCK)
  IN  m \o Repeat(n, n)

\* unpadding that looks at the last byte only
pkcs7Unpad_lastByteOnly(out) ==
  LET len == Len(out)
      n   == out[len]
  IN  IF len = 0 \/ n < 1 \/ n > BLOCK \/ n > len
      THEN Sm4Fail("InvalidPadding")
      ELSE [ok |-> TRUE, err |-> "", val |-> SubSeq(out, 1, len - n)]

\* the pad length is in [1, 16] and all pad bytes equal it; otherwise
\* InvalidPadding
pkcs7Unpad(out) ==
  LET len == Len(out)
      n   == out[len]
  IN  IF len = 0 \/ n < 1 \/ n > BLOCK \/ n > len
      THEN Sm4Fail("InvalidPadding")
      ELSE IF \E k \in (len - n + 1)..len : out[k] # n
      THEN Sm4Fail("InvalidPadding")
      ELSE [ok |-> TRUE, err |-> "", val |-> SubSeq(out, 1, len - n)]

Block(bytes, k) == SubSeq(bytes, BLOCK * (k - 1) + 1, BLOCK * k)

\* blocks 1..k of the output.  ECB: each block on its own.  CBC encrypt: XOR
\* the previous ciphertext block (the iv first) before the cipher; CBC
\* decrypt: XOR the previous ciphertext block after the cipher.
RECURSIVE cryptBlocks(_, _, _, _, _, _)
cryptBlocks(input, rk, decrypt, mode, iv, k) ==
  IF k = 0 THEN <<>>
  ELSE LET before == cryptBlocks(input, rk, decrypt, mode, iv, k - 1)
           prev   == IF k = 1 THEN iv
                     ELSE IF decrypt THEN Block(input, k - 1) ELSE Block(before, k - 1)
           blk    == Block(input, k)
           out    == IF mode = "cbc"
                     THEN IF decrypt THEN XorBytes(sms4Crypt(blk, rk), prev)
                          ELSE sms4Crypt(XorBytes(blk, prev), rk)
                     ELSE sms4Crypt(blk, rk)
       IN  before \o out

IsPkcs(padding) == padding \in {"pkcs#5", "pkcs#7"}

\* sm4 with round keys that are never reversed
sm4_forwardKeys(inArray, key, decrypt, mode, iv, padding) ==
  LET input == IF IsPkcs(padding) /\ ~decrypt THEN pkcs7Pad(inArray) ELSE inArray
      rk    == sms4KeyExt(key, FALSE)
      out   == cryptBlocks(input, rk, decrypt, mode, iv, Len(input) \div BLOCK)
  IN  IF Len(key) # BLOCK THEN Sm4Fail("InvalidKey")
      ELSE IF mode = "cbc" /\ Len(iv) # BLOCK THEN Sm4Fail("InvalidInput")
      ELSE IF Len(input) % BLOCK # 0 THEN Sm4Fail("InvalidInput")
      ELSE IF IsPkcs(padding) /\ decrypt THEN pkcs7Unpad(out)
      ELSE [ok |-> TRUE, err |-> "", val |-> out]

\* sm4(inArray, key, cryptFlag, {mode, iv, padding}) on byte arrays
sm4(inArray, key, decrypt, mode, iv, padding) ==
  LET input == IF IsPkcs(padding) /\ ~decrypt THEN pkcs7Pad(inArray) ELSE inArray
      rk    == sms4KeyExt(key, decrypt)
      out   == cryptBlocks(input, rk, decrypt, mode, iv, Len(input) \div BLOCK)
  IN  IF Len(key) # BLOCK THEN Sm4Fail("InvalidKey")
      ELSE IF mode = "cbc" /\ Len(iv) # BLOCK THEN Sm4Fail("InvalidInput")
      ELSE IF Len(input) % BLOCK # 0 THEN Sm4Fail("InvalidInput")
      ELSE IF IsPkcs(padding) /\ decrypt THEN pkcs7Unpad(out)
      ELSE [ok |-> TRUE, err |-> "", val |-> out]

sm4_encrypt(inArray, key, mode, iv, padding) == sm4(inArray, key, FALSE, mode, iv, padding)
sm4_decrypt(inArray, key, mode, iv, padding) == sm4(inArray, key, TRUE, mode, iv, padding)

-----------------------------------------------------------------------------
(* Scenario: one call of kdf *)

KdfBytes == {0, 255}

KdfInit ==
  /\ pc = "kdf"
  /\ kdfIn \in [z : SeqsUpTo(KdfBytes, MaxZLen), keylen : 0..MaxKdfLen,
                ivNull : BOOLEAN, iv : SeqsUpTo(KdfBytes, 1)]
  /\ kdfOut = <<>>
  /\ KxIdle /\ GenIdle /\ HexIdle /\ EcdhIdle /\ Sm4Idle /\ LaterIdle

KdfCall ==
  /\ pc = "kdf"
  /\ kdfOut' = kdf(kdfIn.z, kdfIn.keylen, kdfIn.ivNull, kdfIn.iv)
  /\ pc' = "kdfDone"
  /\ UNCHANGED <<kdfIn, NotKdf>>

KdfNext == KdfCall

SpecKdf == KdfInit /\ [][KdfNext]_vars

-----------------------------------------------------------------------------
(* Scenario: two honest parties agree on a key.  Party A is the initiator, *)
(* party B the responder; every public key is its private key times G.     *)

Scalars == 1..(CURVE_n - 1)

\* the key pair generateKeyPairHex returns when the private scalar is d
KeyPairOf(d) ==
  LET privateKey == numberToBytesBE(d, Ceil(CURVE_nBitLength, 8))
      publicKey  == getPublicKey(privateKey, FALSE)
  IN  [privateKey |-> leftPad(bytesToHex(privateKey), 64),
       publicKey  |-> leftPad(bytesToHex(publicKey.val), 64)]

KeyPairs == Tuple([d \in Scalars |-> KeyPairOf(d)])

\* the ephemeral private scalars the parties draw
Ephemerals == {r \in Scalars : r <= MaxEphemeral}

\* the identifiers of party A and party B: different, or the same
IdPairs == {<<(<<97>>), (<<98>>)>>, <<(<<98>>), (<<98>>)>>}

NotCalled == [called |-> FALSE, r |-> SharedKeyFail]

\* pc = "kx": both parties call with the key pairs they generated;
\* pc = "supplied": party A calls with an ephemeral key pair whose public key
\* is that of the scalar callIn, whatever its private key is
KxInit ==
  /\ \E ids \in IdPairs :
       kxIn \in [dA : Scalars, rA : Ephemerals, dB : Scalars, rB : Ephemerals,
                  idA : {ids[1]}, idB : {ids[2]}, klen : 0..MaxKeyLen]
  /\ resA = NotCalled
  /\ resB = NotCalled
  /\ \/ pc = "kx" /\ CallIdle
     \/ /\ pc = "supplied"
        /\ kxIn.klen = MaxKeyLen /\ kxIn.idA # kxIn.idB
        /\ callIn \in Ephemerals
        /\ callOut = NotCalled
  /\ KdfIdle /\ GenIdle /\ HexIdle /\ EcdhIdle /\ Sm4Idle /\ LoopIdle /\ HashIdle

InitiatorCalls ==
  /\ pc = "kx"
  /\ ~resA.called
  /\ resA' = [called |-> TRUE,
              r |-> calculateSharedKey(KeyPairs[kxIn.dA], KeyPairs[kxIn.rA],
                                       KeyPairs[kxIn.dB].publicKey,
                                       KeyPairs[kxIn.rB].publicKey,
                                       kxIn.klen, FALSE, kxIn.idA, kxIn.idB)]
  /\ UNCHANGED <<pc, kxIn, resB, NotKx>>

ResponderCalls ==
  /\ pc = "kx"
  /\ ~resB.called
  /\ resB' = [called |-> TRUE,
              r |-> calculateSharedKey(KeyPairs[kxIn.dB], KeyPairs[kxIn.rB],
                                       KeyPairs[kxIn.dA].publicKey,
                                       KeyPairs[kxIn.rA].publicKey,
                                       kxIn.klen, TRUE, kxIn.idB, kxIn.idA)]
  /\ UNCHANGED <<pc, kxIn, resA, NotKx>>

\* the ephemeral key pair of the caller as two strings that need not belong
\* together
SuppliedKeyCall ==
  /\ pc = "supplied"
  /\ ~callOut.called
  /\ callOut' = [called |-> TRUE,
                 r |-> calculateSharedKey(KeyPairs[kxIn.dA],
                         [privateKey |-> KeyPairs[kxIn.rA].privateKey,
                          publicKey |-> KeyPairs[callIn].publicKey],
                         KeyPairs[kxIn.dB].publicKey,
                         KeyPairs[kxIn.rB].publicKey,
                         kxIn.klen, FALSE, kxIn.idA, kxIn.idB)]
  /\ UNCHANGED <<pc, callIn, kxVars, kdfVars, genVars, hexVars, ecdhVars, sm4Vars, loop, hashVars>>

KxNext == InitiatorCalls \/ ResponderCalls \/ SuppliedKeyCall

SpecKx == KxInit /\ [][KxNext]_vars

-----------------------------------------------------------------------------
(* Scenario: one call of generateKeyPairHex.  The curve's randomBytes      *)
(* returns getMinHashLength(n) bytes; the model draws the last two.        *)

RandomBytes ==
  { Repeat(0, getMinHashLength(CURVE_n) - 2) \o <<hi, lo>> :
      hi \in {0, 1, 255}, lo \in 0..MaxRandom }

GenInit ==
  /\ pc = "gen"
  /\ genRnd \in RandomBytes
  /\ genOut = KeyPairFail
  /\ KdfIdle /\ KxIdle /\ HexIdle /\ EcdhIdle /\ Sm4Idle /\ LaterIdle

GenCall ==
  /\ pc = "gen"
  /\ genOut' = generateKeyPairHex(genRnd)
  /\ pc' = "genDone"
  /\ UNCHANGED <<genRnd, NotGen>>

GenNext == GenCall

SpecGen == GenInit /\ [][GenNext]_vars

\* an n-character hex string holding v, as leftPad(v.toString(16), n) gives it
HexOf(v, n) == leftPad(toString16(v), n)

\* C6: the key pair generateKeyPairHex returns has a privateKey of exactly 64
\* hex characters encoding d with 1 <= d <= n - 1 and a publicKey of exactly
\* 130 hex characters: '04', then the 32-byte X and the 32-byte Y of d * G.
C6_KeyPairShape ==
  pc = "genDone" =>
    LET d == hexToNumber(genOut.privateKey)
        P == ladder(BASE, d.val)
    IN  /\ genOut.ok
        /\ Len(genOut.privateKey) = 64
        /\ d.ok /\ d.val >= 1 /\ d.val <= CURVE_n - 1
        /\ Len(genOut.publicKey) = 130
        /\ ~P.inf
        /\ genOut.publicKey = <<48, 52>> \o HexOf(P.x, 64) \o HexOf(P.y, 64)

\* C6: a key pair was returned for random bytes that exceed n - 1
C6_KeyPairReturned ==
  /\ pc = "genDone" /\ genOut.ok
  /\ bytesToNumberBE(genRnd) > CURVE_n
  /\ hexToNumber(genOut.privateKey).val > 1

-----------------------------------------------------------------------------
(* Scenario: ECDH between two parties holding valid key pairs *)

EcdhFail == [ok |-> FALSE, val |-> <<>>]
EcdhNotCalled == [called |-> FALSE, r |-> EcdhFail]

EcdhInit ==
  /\ pc = "ecdh"
  /\ ecdhIn \in [dA : Scalars, dB : Scalars]
  /\ ecdhA = EcdhNotCalled
  /\ ecdhB = EcdhNotCalled
  /\ KdfIdle /\ KxIdle /\ GenIdle /\ HexIdle /\ Sm4Idle /\ LaterIdle

EcdhACalls ==
  /\ pc = "ecdh"
  /\ ~ecdhA.called
  /\ ecdhA' = [called |-> TRUE,
               r |-> ecdh(KeyPairs[ecdhIn.dA].privateKey, KeyPairs[ecdhIn.dB].publicKey)]
  /\ UNCHANGED <<pc, ecdhIn, ecdhB, NotEcdh>>

EcdhBCalls ==
  /\ pc = "ecdh"
  /\ ~ecdhB.called
  /\ ecdhB' = [called |-> TRUE,
               r |-> ecdh(KeyPairs[ecdhIn.dB].privateKey, KeyPairs[ecdhIn.dA].publicKey)]
  /\ UNCHANGED <<pc, ecdhIn, ecdhA, NotEcdh>>

EcdhNext == EcdhACalls \/ EcdhBCalls

SpecEcdh == EcdhInit /\ [][EcdhNext]_vars

\* C9: for two valid key pairs (dA, dA * G) and (dB, dB * G), ecdh(dA, PB) and
\* ecdh(dB, PA) return the same 32 bytes.
C9_EcdhSymmetry ==
  (ecdhA.called /\ ecdhB.called) =>
    /\ ecdhA.r.ok /\ ecdhB.r.ok
    /\ Len(ecdhA.r.val) = 32
    /\ ecdhA.r.val = ecdhB.r.val

\* C9: both parties have called ecdh, with different private keys
C9_BothComputed ==
  /\ ecdhA.called /\ ecdhB.called /\ ecdhA.r.ok
  /\ ecdhIn.dA # ecdhIn.dB

-----------------------------------------------------------------------------
(* Scenario: the hex converters of sm3/utils.ts.  Either a byte array is   *)
(* encoded and the result decoded, or a string is decoded and the result   *)
(* encoded.                                                                *)

HexSampleBytes == {0, 9, 10, 16, 171, 255}
\* the characters '0', '9', 'A', 'f' and 'g'
HexSampleChars == {48, 57, 65, 102, 103}

HexNone == [ok |-> FALSE, val |-> <<>>]

HexInit ==
  /\ pc = "hex"
  /\ \/ hexIn \in [kind : {"bytes"}, val : SeqsUpTo(HexSampleBytes, MaxHexBytes)]
     \/ hexIn \in [kind : {"string"}, val : SeqsUpTo(HexSampleChars, 2 * MaxHexBytes)]
  /\ hexOut = [first |-> HexNone, back |-> HexNone]
  /\ KdfIdle /\ KxIdle /\ GenIdle /\ EcdhIdle /\ Sm4Idle /\ LaterIdle

\* hexToBytes(bytesToHex(b))
EncodeThenDecode ==
  /\ pc = "hex"
  /\ hexIn.kind = "bytes"
  /\ LET hex == bytesToHex(hexIn.val)
     IN  hexOut' = [first |-> [ok |-> TRUE, val |-> hex], back |-> hexToBytes(hex)]
  /\ pc' = "hexDone"
  /\ UNCHANGED <<hexIn, NotHex>>

\* bytesToHex(hexToBytes(h)); nothing is encoded when hexToBytes throws
DecodeThenEncode ==
  /\ pc = "hex"
  /\ hexIn.kind = "string"
  /\ LET bytes == hexToBytes(hexIn.val)
     IN  hexOut' = [first |-> bytes,
                    back  |-> IF bytes.ok THEN [ok |-> TRUE, val |-> bytesToHex(bytes.val)]
                              ELSE HexNone]
  /\ pc' = "hexDone"
  /\ UNCHANGED <<hexIn, NotHex>>

HexNext == EncodeThenDecode \/ DecodeThenEncode

SpecHex == HexInit /\ [][HexNext]_vars

\* a string of hex digits (either case) of even length
IsEvenHexString(str) ==
  Len(str) % 2 = 0 /\ \A k \in 1..Len(str) : IsHexChar(str[k])

\* C10: hexToBytes(bytesToHex(b)) = b for every byte array b, and bytesToHex(b)
\* is lowercase hex with exactly 2 characters per byte; for every even-length
\* string h of hex digits of either case, bytesToHex(hexToBytes(h)) is h
\* lowercased.
C10_HexRoundTrip ==
  pc = "hexDone" =>
    /\ hexIn.kind = "bytes" =>
         /\ Len(hexOut.first.val) = 2 * Len(hexIn.val)
         /\ \A k \in 1..Len(hexOut.first.val) :
              IsDigit(hexOut.first.val[k]) \/ IsLowerHex(hexOut.first.val[k])
         /\ hexOut.back.ok /\ hexOut.back.val = hexIn.val
    /\ (hexIn.kind = "string" /\ IsEvenHexString(hexIn.val)) =>
         /\ hexOut.first.ok
         /\ Len(hexOut.first.val) * 2 = Len(hexIn.val)
         /\ hexOut.back.ok /\ hexOut.back.val = toLowerCase(hexIn.val)

\* C10: a string with both an upper-case and a lower-case digit was decoded
\* and encoded again
C10_MixedCaseRoundTrip ==
  /\ pc = "hexDone" /\ hexIn.kind = "string" /\ IsEvenHexString(hexIn.val)
  /\ \E k \in 1..Len(hexIn.val) : IsUpperHex(hexIn.val[k])
  /\ \E k \in 1..Len(hexIn.val) : IsLowerHex(hexIn.val[k])
  /\ hexOut.back.ok

\* a string hexToBytes must refuse: odd length, or a character that is not a
\* hexadecimal digit
IsMalformedHex(str) ==
  Len(str) % 2 # 0 \/ \E k \in 1..Len(str) : ~IsHexChar(str[k])

\* C11: hexToBytes fails for every malformed input, that is every string of odd
\* length and every string with a character outside 0-9, a-f, A-F in either
\* position of a pair; it never returns bytes for such an input.
C11_MalformedHexFails ==
  (pc = "hexDone" /\ hexIn.kind = "string" /\ IsMalformedHex(hexIn.val))
    => ~hexOut.first.ok

\* C11: hexToBytes returned bytes for a string of even length whose second
\* character of a pair is not a hexadecimal digit
C11_MalformedHexDecoded ==
  /\ pc = "hexDone" /\ hexIn.kind = "string"
  /\ Len(hexIn.val) = 2 /\ IsHexChar(hexIn.val[1]) /\ ~IsHexChar(hexIn.val[2])
  /\ hexOut.first.ok /\ hexOut.first.val = <<HexVal(hexIn.val[1])>>

-----------------------------------------------------------------------------
(* Scenario: a message is encrypted with SM4, the ciphertext may be        *)
(* tampered with on its way, and it is decrypted with the right or with    *)
(* another key, with the padding of the sender or with PKCS#7.             *)

\* key 0123456789abcdeffedcba9876543210 and iv fedcba98765432100123456789abcdef
Sm4Key == <<1, 35, 69, 103, 137, 171, 205, 239, 254, 220, 186, 152, 118, 84, 50, 16>>
Sm4Iv  == <<254, 220, 186, 152, 118, 84, 50, 16, 1, 35, 69, 103, 137, 171, 205, 239>>
Sm4Keys == {Sm4Key, Sm4Iv}
Sm4Modes == {"ecb", "cbc"}
Sm4Paddings == {"pkcs#5", "pkcs#7", "none"}

\* plaintexts of every length up to MaxSm4Len, and blocks that end like a
\* padding: pad byte 0, pad byte 17, pad bytes 3 2, and 16 pad bytes 16
Sm4Stream(n) == Tuple([k \in 1..n |-> (37 * k + 11) % 256])
Sm4Messages ==
  {Sm4Stream(n) : n \in 0..MaxSm4Len}
    \cup {Repeat(7, 15) \o <<0>>, Repeat(7, 15) \o <<17>>, Repeat(7, 14) \o <<3, 2>>,
          Repeat(16, 16)}

Sm4NotCalled == Sm4Fail("")

Sm4Init ==
  /\ pc = "sm4"
  /\ sm4In \in [key : {Sm4Key}, msg : Sm4Messages, mode : Sm4Modes, iv : {Sm4Iv},
                padding : Sm4Paddings]
  /\ sm4Ct = [r |-> Sm4NotCalled, tampered |-> FALSE]
  /\ sm4Out = [r |-> Sm4NotCalled, key |-> <<>>, padding |-> ""]
  /\ KdfIdle /\ KxIdle /\ GenIdle /\ HexIdle /\ EcdhIdle /\ LaterIdle

Sm4Encrypt ==
  /\ pc = "sm4"
  /\ sm4Ct' = [r |-> sm4_encrypt(sm4In.msg, sm4In.key, sm4In.mode, sm4In.iv, sm4In.padding),
               tampered |-> FALSE]
  /\ pc' = "sm4Sent"
  /\ UNCHANGED <<sm4In, sm4Out, NotSm4>>

\* the last bit of the ciphertext is flipped
Sm4Tamper ==
  /\ pc = "sm4Sent"
  /\ sm4Ct.r.ok /\ ~sm4Ct.tampered /\ Len(sm4Ct.r.val) > 0
  /\ LET n    == Len(sm4Ct.r.val)
         last == sm4Ct.r.val[n]
         flip == IF last % 2 = 0 THEN last + 1 ELSE last - 1
     IN  sm4Ct' = [r |-> [sm4Ct.r EXCEPT !.val[n] = flip], tampered |-> TRUE]
  /\ UNCHANGED <<pc, sm4In, sm4Out, NotSm4>>

Sm4Decrypt ==
  /\ pc = "sm4Sent"
  /\ sm4Ct.r.ok
  /\ \E key \in Sm4Keys, padding \in {sm4In.padding, "pkcs#7"} :
       sm4Out' = [r |-> sm4_decrypt(sm4Ct.r.val, key, sm4In.mode, sm4In.iv, padding),
                  key |-> key, padding |-> padding]
  /\ pc' = "sm4Done"
  /\ UNCHANGED <<sm4In, sm4Ct, NotSm4>>

Sm4Next == Sm4Encrypt \/ Sm4Tamper \/ Sm4Decrypt

SpecSm4 == Sm4Init /\ [][Sm4Next]_vars

\* C7: with a 16-byte key, mode ECB or CBC (the same iv on both sides) and
\* padding pkcs#5 / pkcs#7, or padding none and a plaintext whose length is a
\* multiple of 16, sm4.encrypt returns a ciphertext and sm4.decrypt of that
\* ciphertext with the same key and options returns the plaintext.
C7_Sm4RoundTrip ==
  /\ (pc # "sm4" /\ (IsPkcs(sm4In.padding) \/ Len(sm4In.msg) % BLOCK = 0)) => sm4Ct.r.ok
  /\ (/\ pc = "sm4Done" /\ ~sm4Ct.tampered
      /\ sm4Out.key = sm4In.key /\ sm4Out.padding = sm4In.padding) =>
       (sm4Out.r.ok /\ sm4Out.r.val = sm4In.msg)

\* C7: a plaintext of more than one block came back from a CBC round trip
C7_TwoBlocksRoundTrip ==
  /\ pc = "sm4Done" /\ ~sm4Ct.tampered
  /\ sm4Out.key = sm4In.key /\ sm4Out.padding = sm4In.padding
  /\ sm4In.mode = "cbc" /\ IsPkcs(sm4In.padding)
  /\ Len(sm4In.msg) > BLOCK
  /\ sm4Out.r.ok

\* the blocks sm4.decrypt deciphers, before any padding is removed
Sm4Deciphered ==
  sm4_decrypt(sm4Ct.r.val, sm4Out.key, sm4In.mode, sm4In.iv, "none").val

\* the deciphered bytes do not end in a PKCS#7 padding
Sm4BadPadding(out) ==
  /\ Len(out) > 0
  /\ \/ out[Len(out)] < 1
     \/ out[Len(out)] > 16
     \/ \E k \in 1..Len(out) : k > Len(out) - out[Len(out)] /\ out[k] # out[Len(out)]

\* C8: sm4.decrypt with PKCS#7 padding fails with InvalidPadding and returns
\* no plaintext whenever the last deciphered byte is not in [1, 16] or the
\* trailing bytes do not all equal that pad length.
C8_InvalidPaddingFails ==
  (pc = "sm4Done" /\ IsPkcs(sm4Out.padding) /\ Sm4BadPadding(Sm4Deciphered)) =>
    (~sm4Out.r.ok /\ sm4Out.r.err = "InvalidPadding" /\ sm4Out.r.val = <<>>)

\* C8: a tampered ciphertext was refused for its padding
C8_TamperedRefused ==
  /\ pc = "sm4Done" /\ sm4Ct.tampered /\ IsPkcs(sm4Out.padding)
  /\ sm4Out.key = sm4In.key
  /\ Sm4BadPadding(Sm4Deciphered)
  /\ ~sm4Out.r.ok

-----------------------------------------------------------------------------
(* Properties of the key agreement, over SpecKx *)

\* the two calls of the scenario
Calls == {resA, resB}
BothCalled == resA.called /\ resB.called

\* Z of party A and of party B, each over its own public key and identifier
ZInitiator == getZ(KeyPairs[kxIn.dA].publicKey, kxIn.idA).val
ZResponder == getZ(KeyPairs[kxIn.dB].publicKey, kxIn.idB).val

\* C1: once both honest parties have called calculateSharedKey (A with
\* isRecipient = false, B with isRecipient = true, each with its own identifier
\* as idA and the same key length), the two calls end alike and the keys they
\* return are byte-identical.
C1_KeyAgreementSymmetry ==
  BothCalled => (resA.r.ok = resB.r.ok /\ resA.r.KA = resB.r.KA)

\* C1: one party is handed a key while the call of the other party fails
C1_OnePartyFails == BothCalled /\ resA.r.ok # resB.r.ok

\* C2: the KDF input of a call that returns is xU || yU || Z(initiator) ||
\* Z(responder), whichever party makes the call: own Z first for the initiator
\* (isRecipient = false), peer Z first for the responder (isRecipient = true);
\* the key returned is the KDF of that input.
C2_KdfInputOrder ==
  \A res \in Calls :
    (res.called /\ res.r.ok) =>
      LET expected == Coord(res.r.U.x) \o Coord(res.r.U.y) \o ZInitiator \o ZResponder
      IN  /\ res.r.kdfInput = expected
          /\ res.r.KA = kdf(expected, kxIn.klen, TRUE, <<>>)

\* C2: the responder returned a key and the two Z values differ
C2_ResponderReturned ==
  /\ resB.called /\ resB.r.ok /\ ~resB.r.U.inf
  /\ ZInitiator # ZResponder
  /\ kxIn.klen > 0

\* C3: calculateSharedKey returns no key when U is the point at infinity
C3_RejectsInfinity ==
  \A res \in Calls : (res.called /\ res.r.U.inf) => ~res.r.ok

\* C3: a call returned a key derived from the point at infinity
C3_KeyFromInfinity ==
  \E res \in Calls : res.called /\ res.r.ok /\ res.r.U.inf /\ res.r.tA # 0

\* C5: a key of length > 0 that calculateSharedKey returns has a non-zero byte
C5_NoAllZeroKey ==
  \A res \in Calls :
    (res.called /\ res.r.ok /\ Len(res.r.KA) > 0) =>
      \E i \in 1..Len(res.r.KA) : res.r.KA[i] # 0

\* C5: a call returned a key of length > 0 made of zero bytes only
C5_AllZeroKeyReturned ==
  \E res \in Calls :
    /\ res.called /\ res.r.ok /\ Len(res.r.KA) > 0
    /\ \A i \in 1..Len(res.r.KA) : res.r.KA[i] = 0

-----------------------------------------------------------------------------
(* Properties of kdf, over SpecKdf *)

\* block ct of the key stream: SM3(z || ct || iv), ct as 4 bytes big-endian
KdfBlock(z, ct, iv) == sm3(z \o numberToBytesBE(ct, 4) \o iv)

\* C4: kdf returns exactly keylen bytes; byte i (from 0) is byte i mod 32 of
\* SM3(z || ct || iv) with ct = floor(i / 32) + 1 as a 4-byte big-endian
\* counter, an absent iv being the empty suffix; for keylen = 0 it is empty.
C4_KdfOutput ==
  pc = "kdfDone" =>
    LET iv == IF kdfIn.ivNull THEN <<>> ELSE kdfIn.iv
    IN  /\ Len(kdfOut) = kdfIn.keylen
        /\ \A i \in 0..(kdfIn.keylen - 1) :
             kdfOut[i + 1] = KdfBlock(kdfIn.z, (i \div 32) + 1, iv)[(i % 32) + 1]

\* C4: kdf has produced more than two digest blocks with a non-empty iv
C4_ThirdBlockStarted ==
  /\ pc = "kdfDone"
  /\ Len(kdfOut) > 2 * HashLen
  /\ ~kdfIn.ivNull /\ kdfIn.iv # <<>> /\ kdfIn.z # <<>>

-----------------------------------------------------------------------------
(* Scenario: one call of a function of sm2/curves/modular.ts.              *)

\* largest field order, and largest power handed to pow
MaxOrder == 19
MaxPower == 5

IsPrime(k) == k >= 2 /\ \A d \in 2..(k - 1) : k % d # 0
FieldOrders == {k \in 2..MaxOrder : IsPrime(k)}

FieldUnary == {"create", "sqr", "neg", "inv", "sqrt"}
FieldBinary == {"add", "sub", "mul", "div"}

\* the calls f.fn(x), f.fn(x, y) and f.pow(x, power) of f = Field(ORDER) on
\* field elements
FieldCalls ==
  UNION {[fn : FieldUnary, ORDER : {k}, x : 0..(k - 1), y : {0}, power : {0}]
           \cup [fn : FieldBinary, ORDER : {k}, x : 0..(k - 1), y : 0..(k - 1), power : {0}]
           \cup [fn : {"pow"}, ORDER : {k}, x : 0..(k - 1), y : {0}, power : 0..MaxPower]
         : k \in FieldOrders}

NoResult == [ok |-> FALSE, val |-> 0, hangs |-> FALSE]

\* a value that was returned
Value(v) == [ok |-> TRUE, val |-> v, hangs |-> FALSE]
\* the outcome [ok, val] of invert or div
Outcome(r) == [ok |-> r.ok, val |-> r.val, hangs |-> FALSE]

\* f[c.fn](...) for f = Field(c.ORDER)
FieldApply(c) ==
  CASE c.fn = "create" -> Value(Field_create(c.ORDER, c.x))
    [] c.fn = "sqr"    -> Value(Field_sqr(c.ORDER, c.x))
    [] c.fn = "neg"    -> Value(Field_neg(c.ORDER, c.x))
    [] c.fn = "add"    -> Value(Field_add(c.ORDER, c.x, c.y))
    [] c.fn = "sub"    -> Value(Field_sub(c.ORDER, c.x, c.y))
    [] c.fn = "mul"    -> Value(Field_mul(c.ORDER, c.x, c.y))
    [] c.fn = "pow"    -> Value(Field_pow(c.ORDER, c.x, c.power))
    [] c.fn = "inv"    -> Outcome(Field_inv(c.ORDER, c.x))
    [] c.fn = "div"    -> Outcome(Field_div(c.ORDER, c.x, c.y))
    [] c.fn = "sqrt"   -> Field_sqrt(c.ORDER, c.x)

\* largest modulus handed to invert; the number runs from -MaxModulo to
\* 2 * MaxModulo and the modulus from -2
MaxModulo == 12

\* the calls invert(x, ORDER)
InvertCalls ==
  [fn : {"invert"}, ORDER : (-2)..MaxModulo, x : (-MaxModulo)..(2 * MaxModulo),
   y : {0}, power : {0}]

\* longest list handed to invertBatch, and largest order of its field
MaxBatch == 3
MaxBatchOrder == 7

\* the calls Field(ORDER).invertBatch(x)
BatchCalls ==
  UNION {[fn : {"invertBatch"}, ORDER : {k}, x : SeqsUpTo(0..(k - 1), MaxBatch),
          y : {0}, power : {0}] : k \in {j \in 2..MaxBatchOrder : IsPrime(j)}}

ModularInit ==
  /\ \/ pc = "field" /\ callIn \in FieldCalls
     \/ pc = "invert" /\ callIn \in InvertCalls
     \/ pc = "batch" /\ callIn \in BatchCalls
  /\ callOut = NoResult
  /\ EarlyIdle /\ LoopIdle /\ HashIdle

FieldCall ==
  /\ pc = "field"
  /\ callOut' = FieldApply(callIn)
  /\ pc' = "fieldDone"
  /\ UNCHANGED <<callIn, earlyVars, loop, hashVars>>

InvertCall ==
  /\ pc = "invert"
  /\ callOut' = Outcome(invert(callIn.x, callIn.ORDER))
  /\ pc' = "invertDone"
  /\ UNCHANGED <<callIn, earlyVars, loop, hashVars>>

BatchCall ==
  /\ pc = "batch"
  /\ callOut' = FpInvertBatch(callIn.ORDER, callIn.x)
  /\ pc' = "batchDone"
  /\ UNCHANGED <<callIn, earlyVars, loop, hashVars>>

ModularNext == FieldCall \/ InvertCall \/ BatchCall

SpecModular == ModularInit /\ [][ModularNext]_vars

\* C12: for a field built by Field(ORDER) with prime ORDER and inputs x with
\* 0 <= x < ORDER, the results of create, add, sub, mul, sqr, neg, pow (any
\* power >= 0), and of inv, div and sqrt when they do not fail, satisfy
\* 0 <= result < ORDER.
C12_FieldElementInRange ==
  (pc = "fieldDone" /\ callOut.ok) => Field_isValid(callIn.ORDER, callOut.val)

\* C12: a subtraction whose difference is negative returned the element x - y
\* + ORDER
C12_NegativeDifferenceReduced ==
  /\ pc = "fieldDone" /\ callIn.fn = "sub" /\ callIn.x < callIn.y
  /\ callOut.ok /\ callOut.val = callIn.x - callIn.y + callIn.ORDER

\* the greatest common divisor of a >= 0 and b >= 0
RECURSIVE Gcd(_, _)
Gcd(a, b) == IF a = 0 THEN b ELSE Gcd(b % a, a)

\* invert(a, m) has to fail
InvertMustFail(a, m) == a = 0 \/ m <= 0 \/ Gcd(mod(a, m), m) # 1

\* C13: invert(a, m) fails when a = 0, when m <= 0, and when gcd(a mod m, m)
\* is not 1; in every other case it returns x with 0 <= x < m and a * x = 1
\* modulo m, that is m divides a * x - 1, also for negative a and for a >= m.
\* In particular Field.inv(0) fails.
C13_InvertCongruent ==
  /\ pc = "invertDone" =>
       IF InvertMustFail(callIn.x, callIn.ORDER) THEN ~callOut.ok
       ELSE /\ callOut.ok
            /\ 0 <= callOut.val /\ callOut.val < callIn.ORDER
            /\ mod(callIn.x * callOut.val - 1, callIn.ORDER) = 0
  /\ (pc = "fieldDone" /\ callIn.fn = "inv" /\ callIn.x = 0) => ~callOut.ok

\* C13: the inverse of a negative number and of a number above the modulus
\* was returned, for a modulus that has other residues than 0
C13_InverseOfNegative ==
  /\ pc = "invertDone" /\ callOut.ok /\ callIn.ORDER > 2
  /\ callIn.x < 0
  /\ mod(callIn.x * callOut.val, callIn.ORDER) = 1

\* C13 as it is stated: the value returned satisfies (a * x) mod m = 1
C13_InvertProductIsOne ==
  /\ pc = "invertDone" =>
       IF InvertMustFail(callIn.x, callIn.ORDER) THEN ~callOut.ok
       ELSE /\ callOut.ok
            /\ 0 <= callOut.val /\ callOut.val < callIn.ORDER
            /\ mod(callIn.x * callOut.val, callIn.ORDER) = 1
  /\ (pc = "fieldDone" /\ callIn.fn = "inv" /\ callIn.x = 0) => ~callOut.ok

\* x is a square modulo P
IsResidue(x, P) == \E r \in 0..(P - 1) : (r * r) % P = x

\* x^e modulo P by repeated multiplication
RECURSIVE ModExp(_, _, _)
ModExp(x, e, P) == IF e = 0 THEN 1 % P ELSE (x * ModExp(x, e - 1, P)) % P

\* C14: for every prime ORDER with ORDER mod 4 = 3, Field(ORDER).sqrt(x)
\* returns r = x^((ORDER+1)/4) with r * r mod ORDER = x whenever x is a
\* quadratic residue (0 included), and fails with 'Cannot find square root'
\* for every non-residue; it never returns a value whose square differs from x.
C14_Sqrt3Mod4 ==
  (pc = "fieldDone" /\ callIn.fn = "sqrt" /\ callIn.ORDER % 4 = 3) =>
    /\ ~callOut.hangs
    /\ IF IsResidue(callIn.x, callIn.ORDER)
       THEN /\ callOut.ok
            /\ callOut.val = ModExp(callIn.x, (callIn.ORDER + 1) \div 4, callIn.ORDER)
            /\ (callOut.val * callOut.val) % callIn.ORDER = callIn.x
       ELSE ~callOut.ok

\* C14: the root of a residue other than 0 and 1 was returned in the field of
\* order 19
C14_RootReturned ==
  /\ pc = "fieldDone" /\ callIn.fn = "sqrt" /\ callIn.ORDER = 19
  /\ callIn.x > 1 /\ callOut.ok /\ callOut.val > 1

-----------------------------------------------------------------------------
(* Scenario: one call of compressPublicKeyHex.                             *)

\* the strings that are not 130 characters long differ from 130 by at most
\* this many characters
MaxLengthError == 3

\* the 22 hexadecimal digits of either case
HexDigitChars == (48..57) \cup (97..102) \cup (65..70)

\* 64-character hex strings: all zeros, all f but the digit e at the end, and
\* the digits a and B in turn
CoordinateSamples ==
  {Repeat(48, 64), Repeat(102, 63) \o <<101>>,
   Tuple([k \in 1..64 |-> IF k % 2 = 1 THEN 97 ELSE 66])}

\* 64-character hex strings ending in every hexadecimal digit
OrdinateSamples ==
  {Repeat(c, 63) \o <<d>> : c \in {48, 49, 102}, d \in HexDigitChars}

\* uncompressed keys 04 || X || Y
UncompressedKeys == {<<48, 52>> \o X \o Y : X \in CoordinateSamples, Y \in OrdinateSamples}

\* strings of another length: a key cut short or extended, a compressed key,
\* the empty string
WrongLengthKeys ==
  {SubSeq(<<48, 52>> \o Repeat(49, 128 + MaxLengthError), 1, 130 + e) :
     e \in ((-MaxLengthError)..MaxLengthError) \ {0}}
  \cup {<<>>, <<48, 50>> \o Repeat(49, 64)}

CompressInit ==
  /\ pc = "compress"
  /\ callIn \in [fn : {"compressPublicKeyHex"}, s : UncompressedKeys \cup WrongLengthKeys]
  /\ callOut = [ok |-> FALSE, val |-> <<>>]
  /\ EarlyIdle /\ LoopIdle /\ HashIdle

CompressCall ==
  /\ pc = "compress"
  /\ callOut' = compressPublicKeyHex(callIn.s)
  /\ pc' = "compressDone"
  /\ UNCHANGED <<callIn, earlyVars, loop, hashVars>>

CompressNext == CompressCall

SpecCompress == CompressInit /\ [][CompressNext]_vars

\* C16: compressPublicKeyHex(s) fails for every input whose length is not 130
\* characters; for a 130-character uncompressed key 04 || X || Y it returns
\* exactly 66 characters: '02' and the X hex when Y is even, '03' and the X hex
\* when Y is odd.
C16_CompressedKey ==
  pc = "compressDone" =>
    IF Len(callIn.s) # 130 THEN ~callOut.ok
    ELSE /\ callOut.ok
         /\ Len(callOut.val) = 66
         /\ SubSeq(callOut.val, 3, 66) = SubSeq(callIn.s, 3, 66)
         /\ callOut.val[1] = 48
         /\ callOut.val[2] = (IF HexVal(callIn.s[130]) % 2 = 0 THEN 50 ELSE 51)

\* C16: a key whose Y ends in an upper-case odd digit, after even digits, was
\* compressed with the prefix '03'
C16_OddUpperCaseCompressed ==
  /\ pc = "compressDone" /\ callOut.ok
  /\ callIn.s[129] = 48 /\ callIn.s[130] = 70
  /\ SubSeq(callOut.val, 1, 2) = <<48, 51>>

-----------------------------------------------------------------------------
(* sm3/utils.ts wrapConstructor.  A hash instance is the bytes it has      *)
(* absorbed and whether digest has been called on it; the concrete class   *)
(* (src/sm2/sm3) is not part of the sources at hand, and its digest is the *)
(* sm3 of this model.  Instance 1 is tmp, built when the constructor is    *)
(* wrapped.  A call hashC(msg) is hashCons(), then update, then digest;    *)
(* the steps of several calls may alternate.                               *)

\* number of calls of the wrapped hash, and longest message
MaxHashCalls == 3
MaxMsgLen == 1

HashMessages == SeqsUpTo({1, 2}, MaxMsgLen)

\* hashCons(): a new instance
NewHash == [data |-> <<>>, finished |-> FALSE]

\* toBytes(data) for a Uint8Array: the array itself
toBytes(data) == data

\* the instance a call works on, were it tmp instead of a new one
hashCons_tmp(insts) == 1

\* the instance a call works on: hashCons() adds one to those that exist
hashCons(insts) == Len(insts) + 1

\* instance.update(buf); a finished instance throws
update(inst, buf) == [inst EXCEPT !.data = inst.data \o buf]

\* instance.digest()
digest(inst) == sm3(inst.data)

HashInit ==
  /\ pc = "hash"
  /\ hashInsts = <<NewHash>>
  /\ hashCalls = <<>>
  /\ EarlyIdle /\ CallIdle /\ LoopIdle

\* the instances once instance k is there
WithInstance(insts, k) == IF k > Len(insts) THEN Append(insts, NewHash) ELSE insts

\* hashC(msg) begins: hashCons()
HashBegin(msg, k) ==
  /\ pc = "hash"
  /\ Len(hashCalls) < MaxHashCalls
  /\ hashInsts' = WithInstance(hashInsts, k)
  /\ hashCalls' = Append(hashCalls, [msg |-> msg, inst |-> k, step |-> "created", out |-> <<>>])
  /\ UNCHANGED <<pc, earlyVars, callVars, loop>>

\* .update(toBytes(msg)) of call i
HashUpdate(i) ==
  /\ pc = "hash"
  /\ hashCalls[i].step = "created"
  /\ IF hashInsts[hashCalls[i].inst].finished
     THEN /\ hashCalls' = [hashCalls EXCEPT ![i].step = "threw"]
          /\ UNCHANGED hashInsts
     ELSE /\ hashInsts' = [hashInsts EXCEPT ![hashCalls[i].inst] = update(@, toBytes(hashCalls[i].msg))]
          /\ hashCalls' = [hashCalls EXCEPT ![i].step = "updated"]
  /\ UNCHANGED <<pc, earlyVars, callVars, loop>>

\* .digest() of call i, which returns
HashDigest(i) ==
  /\ pc = "hash"
  /\ hashCalls[i].step = "updated"
  /\ hashCalls' = [hashCalls EXCEPT ![i].step = "returned",
                                    ![i].out = digest(hashInsts[hashCalls[i].inst])]
  /\ hashInsts' = [hashInsts EXCEPT ![hashCalls[i].inst].finished = TRUE]
  /\ UNCHANGED <<pc, earlyVars, callVars, loop>>

HashNext ==
  \/ \E msg \in HashMessages : HashBegin(msg, hashCons(hashInsts))
  \/ \E i \in 1..Len(hashCalls) : HashUpdate(i)
  \/ \E i \in 1..Len(hashCalls) : HashDigest(i)

SpecHash == HashInit /\ [][HashNext]_vars

\* C17: the function returned by wrapConstructor builds a fresh instance for
\* every call, so the digest of a message depends on that message only: it is
\* the digest of the message alone, the same for equal messages whatever calls
\* were made before or in between, and the instance built at wrap time to read
\* outputLen and blockLen is never updated.
C17_HashDependsOnMessageOnly ==
  pc = "hash" =>
    /\ hashInsts[1] = NewHash
    /\ \A i \in 1..Len(hashCalls) :
         /\ hashCalls[i].inst = i + 1
         /\ hashCalls[i].step # "threw"
         /\ hashCalls[i].step = "returned" => hashCalls[i].out = sm3(hashCalls[i].msg)
    /\ \A i, j \in 1..Len(hashCalls) :
         (hashCalls[i].step = "returned" /\ hashCalls[j].step = "returned"
            /\ hashCalls[i].msg = hashCalls[j].msg) => hashCalls[i].out = hashCalls[j].out

\* C17: a call returned while an earlier call with another message was between
\* its update and its digest, and a later call with the message of the earlier
\* one returned too
C17_InterleavedCallsReturned ==
  /\ pc = "hash" /\ Len(hashCalls) = 3
  /\ hashCalls[1].step = "updated" /\ hashCalls[2].step = "returned"
  /\ hashCalls[3].step = "returned"
  /\ hashCalls[1].msg # hashCalls[2].msg /\ hashCalls[1].msg = hashCalls[3].msg
  /\ hashCalls[1].msg # <<>>

-----------------------------------------------------------------------------
(* bigintToValue (src/sm2/asn1 is not part of the sources at hand): the    *)
(* content of a DER INTEGER as the specification's section on ASN.1 and    *)
(* the vectors of test/asn1.test.ts give it.                               *)

\* largest magnitude handed to bigintToValue
MaxDerValue == 33000

\* the first hexadecimal digit is one of 0..7: the high bit is clear
HighBitClear(h) == h[1] >= 48 /\ h[1] <= 55

\* a magnitude in whole bytes without the 00 that frees the high bit
WholeBytes_noPrefix(h) == IF Len(h) % 2 = 1 THEN <<48>> \o h ELSE h

\* h = v.toString(16) of v >= 0 in whole bytes, after 00 when the high bit of
\* the first byte is set
WholeBytes(h) ==
  IF Len(h) % 2 = 1 THEN <<48>> \o h
  ELSE IF ~HighBitClear(h) THEN <<48, 48>> \o h
  ELSE h

\* the number of hexadecimal digits of the encoding of a negative number of
\* magnitude h
NegativeLength(h) ==
  IF Len(h) % 2 = 1 THEN Len(h) + 1
  ELSE IF ~HighBitClear(h) THEN Len(h) + 2
  ELSE Len(h)

RECURSIVE Pow16(_)
Pow16(k) == IF k <= 0 THEN 1 ELSE 16 * Pow16(k - 1)

\* the two's complement of the magnitude on len digits: the magnitude
\* inverted under a mask of len digits f, plus 1
TwosComplement(magnitude, len) == toString16((Pow16(len) - 1 - magnitude) + 1)

bigintToValue(v) ==
  IF v >= 0 THEN WholeBytes(toString16(v))
  ELSE TwosComplement(-v, NegativeLength(toString16(-v)))

DerInit ==
  /\ pc = "der"
  /\ callIn \in [fn : {"bigintToValue"}, v : (-MaxDerValue)..MaxDerValue]
  /\ callOut = <<>>
  /\ EarlyIdle /\ LoopIdle /\ HashIdle

DerCall ==
  /\ pc = "der"
  /\ callOut' = bigintToValue(callIn.v)
  /\ pc' = "derDone"
  /\ UNCHANGED <<callIn, earlyVars, loop, hashVars>>

DerNext == DerCall

SpecDer == DerInit /\ [][DerNext]_vars

\* the number a string of hexadecimal digits denotes
HexNumber(str) == DigitsValue([k \in 1..Len(str) |-> HexVal(str[k])], 1, Len(str), 16)

\* the first byte of a string of hexadecimal digits
FirstByte(str) == 16 * HexVal(str[1]) + HexVal(str[2])

\* C18: bigintToValue(v) returns an even-length hex string; for v >= 0 it is
\* the minimal big-endian magnitude in whole bytes, prefixed with '00' exactly
\* when the high bit of the first magnitude byte is set (and '00' for v = 0);
\* for v < 0 it is the two's-complement encoding whose first byte has the high
\* bit set.
C18_DerIntegerContent ==
  pc = "derDone" =>
    /\ Len(callOut) % 2 = 0 /\ Len(callOut) >= 2
    /\ \A k \in 1..Len(callOut) : IsDigit(callOut[k]) \/ IsLowerHex(callOut[k])
    /\ callIn.v >= 0 =>
         /\ HexNumber(callOut) = callIn.v
         /\ FirstByte(callOut) < 128
         /\ (FirstByte(callOut) = 0 /\ Len(callOut) > 2) => FirstByte(Tail(Tail(callOut))) >= 128
    /\ callIn.v = 0 => callOut = <<48, 48>>
    /\ callIn.v < 0 =>
         /\ HexNumber(callOut) - Pow16(Len(callOut)) = callIn.v
         /\ FirstByte(callOut) >= 128

\* C18: a positive number whose two magnitude bytes begin with a set bit was
\* encoded on three bytes, the first being 00
C18_PrefixedMagnitude ==
  /\ pc = "derDone" /\ callIn.v >= 32768
  /\ Len(callOut) = 6 /\ SubSeq(callOut, 1, 2) = <<48, 48>>

-----------------------------------------------------------------------------
(* Properties of the reduced coordinates of calculateSharedKey (SpecKx) *)

\* the x coordinate of r * G, the point a key pair of private scalar r publishes
PublishedX(r) == multiply(BASE, r).pt.x

\* the calls made so far: the outcome, the caller's private scalars dA and rA,
\* and the scalars whose public keys were supplied as RA and RB
KxCallsMade ==
  IF pc = "supplied"
  THEN {c \in {[res |-> callOut, dA |-> kxIn.dA, rA |-> kxIn.rA,
                RA |-> callIn, RB |-> kxIn.rB]} : c.res.called}
  ELSE {c \in {[res |-> resA, dA |-> kxIn.dA, rA |-> kxIn.rA,
                RA |-> kxIn.rA, RB |-> kxIn.rB],
               [res |-> resB, dA |-> kxIn.dB, rA |-> kxIn.rB,
                RA |-> kxIn.rB, RB |-> kxIn.rA]} : c.res.called}

\* C19: in a call of calculateSharedKey that returns, x1_ and x2_ are
\* 2^w + (x AND (2^w - 1)) for the x coordinates of RA and RB, RA being the
\* point of the ephemeral public key the caller supplied; both lie in
\* [2^w, 2^(w+1)); and tA = (dA + x1_ * rA) mod n lies in [0, n).
C19_ReducedCoordinates ==
  \A c \in KxCallsMade :
    c.res.r.ok =>
      /\ c.res.r.x1_ = wPow2 + BitAnd(PublishedX(c.RA), wPow2Sub1)
      /\ c.res.r.x2_ = wPow2 + BitAnd(PublishedX(c.RB), wPow2Sub1)
      /\ wPow2 <= c.res.r.x1_ /\ c.res.r.x1_ < 2 * wPow2
      /\ wPow2 <= c.res.r.x2_ /\ c.res.r.x2_ < 2 * wPow2
      /\ c.res.r.tA = (c.dA + c.res.r.x1_ * c.rA) % CURVE_n
      /\ 0 <= c.res.r.tA /\ c.res.r.tA < CURVE_n

\* C19: a call returned a key although the ephemeral public key it was given
\* is not the one of its ephemeral private key, and the two give different x1_
C19_ForeignEphemeralKeyUsed ==
  /\ pc = "supplied" /\ callOut.called /\ callOut.r.ok
  /\ callIn # kxIn.rA
  /\ callOut.r.x1_ # wPow2 + BitAnd(PublishedX(kxIn.rA), wPow2Sub1)

-----------------------------------------------------------------------------
(* Scenario: Field(P).sqrt(n) of tonelliShanks, one step of tonelliSlow at a
   time (SpecTonelli) *)

\* largest field order of the square roots followed step by step
MaxTonelliOrder == 41

\* the odd primes for which FpSqrt(P) returns tonelliShanks(P)
TonelliOrders ==
  {P \in 3..MaxTonelliOrder : IsPrime(P) /\ Rem(P, 4) # 3 /\ Rem(P, 8) # 5}

TonelliCalls == UNION {[ORDER : {P}, n : 0..(P - 1)] : P \in TonelliOrders}

\* the locals of tonelliSlow: r, g, x and b, and the m of the iteration that
\* is under way (0 outside an iteration)
NoLocals == [st |-> [r |-> 0, g |-> 0, x |-> 0, b |-> 0], m |-> 0]

TonelliInit ==
  /\ pc = "sqrt"
  /\ callIn \in TonelliCalls
  /\ callOut = NoResult
  /\ loop = NoLocals
  /\ EarlyIdle /\ HashIdle

\* tonelliSlow from its entry to the head of the while loop
TonelliEnter ==
  /\ pc = "sqrt"
  /\ \E start \in {tonelliStart(callIn.ORDER, callIn.n)} :
       IF start.throws
       THEN pc' = "threw" /\ callOut' = SqrtThrows /\ UNCHANGED loop
       ELSE pc' = "while" /\ loop' = [st |-> start.st, m |-> 0] /\ UNCHANGED callOut
  /\ UNCHANGED <<callIn, earlyVars, hashVars>>

\* the while loop is left: b = 1 returns x, b = 0 returns Fp.ZERO
TonelliReturn ==
  /\ pc = "while"
  /\ loop.st.b = 1 \/ loop.st.b = 0
  /\ pc' = "returned"
  /\ callOut' = SqrtReturns(IF loop.st.b = 1 THEN loop.st.x ELSE 0)
  /\ UNCHANGED <<callIn, loop, earlyVars, hashVars>>

\* the first half of an iteration: the for loop that finds m
TonelliFor ==
  /\ pc = "while"
  /\ loop.st.b # 1 /\ loop.st.b # 0
  /\ pc' = "for"
  /\ \E m \in {tonelliM(callIn.ORDER, Field_sqr(callIn.ORDER, loop.st.b), 1, loop.st.r)} :
       loop' = [loop EXCEPT !.m = m]
  /\ UNCHANGED <<callIn, callOut, earlyVars, hashVars>>

\* the second half of an iteration: ge, and the new g, x, b and r
TonelliAssign ==
  /\ pc = "for"
  /\ pc' = "while"
  /\ \E next \in {tonelliGe(callIn.ORDER, loop.st, loop.m)} :
       loop' = [st |-> next, m |-> 0]
  /\ UNCHANGED <<callIn, callOut, earlyVars, hashVars>>

TonelliNext == TonelliEnter \/ TonelliReturn \/ TonelliFor \/ TonelliAssign

\* a call that was started goes on as long as it has a step to take
SpecTonelli == TonelliInit /\ [][TonelliNext]_vars /\ WF_vars(TonelliNext)

\* C20: for every odd prime P that FpSqrt hands to tonelliShanks and every n in
\* 0..P-1, Field(P).sqrt(n) comes to an end: it returns a root r with
\* r * r mod P = n when n is a quadratic residue (0 for n = 0), and it throws
\* 'Cannot find square root' when n is not.
C20_TonelliTerminates ==
  /\ <>(pc \in {"returned", "threw"})
  /\ [](pc = "returned" =>
          /\ IsResidue(callIn.n, callIn.ORDER)
          /\ (callOut.val * callOut.val) % callIn.ORDER = callIn.n
          /\ (callIn.n = 0 => callOut.val = 0))
  /\ [](pc = "threw" => ~IsResidue(callIn.n, callIn.ORDER))

\* C20: an iteration of the while loop for a non-residue n has found m = r,
\* and what it is about to assign to r, g, x and b is what they hold already
C20_IterationChangesNothing ==
  /\ pc = "for"
  /\ ~IsResidue(callIn.n, callIn.ORDER)
  /\ loop.m = loop.st.r
  /\ tonelliGe(callIn.ORDER, loop.st, loop.m) = loop.st

-----------------------------------------------------------------------------
(* Scenario: one call of mapHashToField (SpecMap) *)

\* one byte more than the longest key mapHashToField accepts
MaxMapKeyLen == 1025
\* largest value of the last but one byte of a key
MaxMapByte == 3

\* key lengths around 16, around getMinHashLength of the curve order, and
\* around 1024
MapKeyLengths == {0, 1, 15, 16, 17, 47, 48, 49, MaxMapKeyLen - 1, MaxMapKeyLen}

\* a key of the given length: zero bytes, then hi and lo
MapKey(len, hi, lo) ==
  IF len = 0 THEN <<>>
  ELSE IF len = 1 THEN <<lo>>
  ELSE Repeat(0, len - 2) \o <<hi, lo>>

MapKeys ==
  {MapKey(len, hi, lo) :
     len \in MapKeyLengths, hi \in 0..MaxMapByte, lo \in {0, 1, 2, 254, 255}}

\* field orders of one, two and (the curve order) 32 bytes
MapOrders == {2, 3, CURVE_n, 251, 256, 257, 65521}

MapInit ==
  /\ pc = "map"
  /\ callIn \in [key : MapKeys, fieldOrder : MapOrders]
  /\ callOut = [ok |-> FALSE, val |-> <<>>]
  /\ EarlyIdle /\ LoopIdle /\ HashIdle

MapCall ==
  /\ pc = "map"
  /\ callOut' = mapHashToField(callIn.key, callIn.fieldOrder)
  /\ pc' = "mapDone"
  /\ UNCHANGED <<callIn, earlyVars, loop, hashVars>>

MapNext == MapCall

SpecMap == MapInit /\ [][MapNext]_vars

\* the number a byte array denotes, most significant byte first, summed over
\* its non-zero bytes
RECURSIVE BytesSum(_, _)
BytesSum(bytes, at) ==
  IF at = {} THEN 0
  ELSE LET k == CHOOSE i \in at : TRUE
       IN  bytes[k] * Pow2(8 * (Len(bytes) - k)) + BytesSum(bytes, at \ {k})

BytesNumber(bytes) == BytesSum(bytes, {k \in 1..Len(bytes) : bytes[k] # 0})

\* the byte length L of a field order; the curve order has its 32 bytes
OrderBytes(order) ==
  IF order = CURVE_n THEN CURVE_nBitLength \div 8
  ELSE CHOOSE L \in 1..4 : Pow2(8 * (L - 1)) <= order /\ order < Pow2(8 * L)

Max(a, b) == IF a >= b THEN a ELSE b

\* C21: mapHashToField(key, order) fails unless the key has at least
\* max(16, L + ceil(L/2)) and at most 1024 bytes, L being the byte length of
\* order; otherwise it returns exactly L bytes that encode
\* (num(key) mod (order - 1)) + 1, a value in [1, order - 1].
C21_MapHashToField ==
  pc = "mapDone" =>
    LET L   == OrderBytes(callIn.fieldOrder)
        len == Len(callIn.key)
    IN  IF len < Max(16, L + (L + 1) \div 2) \/ len > 1024
        THEN ~callOut.ok
        ELSE /\ callOut.ok
             /\ Len(callOut.val) = L
             /\ BytesNumber(callOut.val)
                  = (BytesNumber(callIn.key) % (callIn.fieldOrder - 1)) + 1
             /\ 1 <= BytesNumber(callOut.val)
             /\ BytesNumber(callOut.val) <= callIn.fieldOrder - 1

\* C21: a key of 1024 bytes whose number is a multiple of order was mapped to 1
\* more than its remainder modulo order - 1
C21_LongestKeyMapped ==
  /\ pc = "mapDone" /\ callOut.ok
  /\ Len(callIn.key) = 1024
  /\ callIn.fieldOrder = 257
  /\ BytesNumber(callIn.key) = 2 * 257
  /\ BytesNumber(callOut.val) = 3

-----------------------------------------------------------------------------
(* sm3/utils.ts strToU8.  A string is the sequence of its UTF-16 code units. *)

\* a | b on non-negative numbers
RECURSIVE BitOr(_, _)
BitOr(a, b) ==
  IF a = 0 THEN b
  ELSE IF b = 0 THEN a
  ELSE 2 * BitOr(a \div 2, b \div 2) + (IF a % 2 = 1 \/ b % 2 = 1 THEN 1 ELSE 0)

\* new Uint8Array(n)
Zeros(n) == Repeat(0, n)

\* slc(v, s, e): a copy of v.subarray(s, e), s and e clamped to the array
slc(v, s, e) ==
  LET from == IF s < 0 THEN 0 ELSE s
      to   == IF e > Len(v) THEN Len(v) ELSE e
  IN  Tuple([k \in 1..(IF to > from THEN to - from ELSE 0) |-> v[from + k]])

\* the test of line 85 with one free byte asked for instead of five
needsGrow_oneByte(ai, arLength) == ai + 1 > arLength

\* line 85: if (ai + 5 > ar.length)
needsGrow(ai, arLength) == ai + 5 > arLength

\* lines 85-89: ar, replaced by a longer array that starts with its bytes when
\* fewer than 5 bytes are free
strToU8_grown(ar, ai, l, i) ==
  IF needsGrow(ai, Len(ar))
  THEN Tuple([k \in 1..(ai + 8 + 2 * (l - i)) |-> IF k <= Len(ar) THEN ar[k] ELSE 0])
  ELSE ar

\* w(v): ar[ai++] = v.  A typed array ignores a write at or beyond its
\* length; dropped counts such writes
strToU8_w(st, v) ==
  [i |-> st.i,
   ar |-> IF st.ai < Len(st.ar) THEN [st.ar EXCEPT ![st.ai + 1] = v % 256] ELSE st.ar,
   ai |-> st.ai + 1,
   dropped |-> st.dropped + (IF st.ai < Len(st.ar) THEN 0 ELSE 1)]

\* str.charCodeAt(i) & 1023, i counted from 0: NaN & 1023 is 0 beyond the end
lowBitsAt(str, i) == IF i < Len(str) THEN BitAnd(str[i + 1], 1023) ELSE 0

\* lines 95-98: the four bytes of c
strToU8_four(st, c) ==
  strToU8_w(strToU8_w(strToU8_w(strToU8_w(st,
    BitOr(240, Shr(c, 18))),
    BitOr(128, BitAnd(Shr(c, 12), 63))),
    BitOr(128, BitAnd(Shr(c, 6), 63))),
    BitOr(128, BitAnd(c, 63)))

\* lines 90-99: the bytes of the code unit c = str.charCodeAt(i); the branch
\* of the surrogates reads the next unit with ++i
strToU8_unit(str, st, c) ==
  IF c < 128 THEN strToU8_w(st, c)
  ELSE IF c < 2048
  THEN strToU8_w(strToU8_w(st, BitOr(192, Shr(c, 6))), BitOr(128, BitAnd(c, 63)))
  ELSE IF c > 55295 /\ c < 57344
  THEN strToU8_four([st EXCEPT !.i = st.i + 1],
                    BitOr(65536 + BitAnd(c, 1023 * 1024), lowBitsAt(str, st.i + 1)))
  ELSE strToU8_w(strToU8_w(strToU8_w(st,
         BitOr(224, Shr(c, 12))),
         BitOr(128, BitAnd(Shr(c, 6), 63))),
         BitOr(128, BitAnd(c, 63)))

\* ++i at the end of an iteration
strToU8_next(st) == [st EXCEPT !.i = st.i + 1]

\* one iteration of the for loop of lines 84-100, the ++i included
strToU8_char(str, st) ==
  strToU8_next(strToU8_unit(str,
    [st EXCEPT !.ar = strToU8_grown(st.ar, st.ai, Len(str), st.i)], str[st.i + 1]))

\* lines 79-80: ar = new Uint8Array(str.length + (str.length >> 1)), ai = 0
strToU8_start(str) ==
  [i |-> 0, ar |-> Zeros(Len(str) + Shr(Len(str), 1)), ai |-> 0, dropped |-> 0]

\* the UTF-8 bytes of a code point
Utf8(cp) ==
  IF cp < 128 THEN <<cp>>
  ELSE IF cp < 2048 THEN <<192 + (cp \div 64), 128 + (cp % 64)>>
  ELSE IF cp < 65536
  THEN <<224 + (cp \div 4096), 128 + ((cp \div 64) % 64), 128 + (cp % 64)>>
  ELSE <<240 + (cp \div 262144), 128 + ((cp \div 4096) % 64),
         128 + ((cp \div 64) % 64), 128 + (cp % 64)>>

IsHighSurrogate(c) == 55296 <= c /\ c <= 56319
IsLowSurrogate(c) == 56320 <= c /\ c <= 57343

\* te.encode(str), the TextEncoder of the platform: the UTF-8 bytes of the
\* code points of str from unit k on, a surrogate without its partner
\* counting as U+FFFD
RECURSIVE TextEncoder_encodeFrom(_, _)
TextEncoder_encodeFrom(str, k) ==
  IF k > Len(str) THEN <<>>
  ELSE IF IsHighSurrogate(str[k]) /\ k < Len(str) /\ IsLowSurrogate(str[k + 1])
  THEN Utf8(65536 + (str[k] - 55296) * 1024 + (str[k + 1] - 56320))
         \o TextEncoder_encodeFrom(str, k + 2)
  ELSE IF IsHighSurrogate(str[k]) \/ IsLowSurrogate(str[k])
  THEN Utf8(65533) \o TextEncoder_encodeFrom(str, k + 1)
  ELSE Utf8(str[k]) \o TextEncoder_encodeFrom(str, k + 1)

TextEncoder_encode(str) == TextEncoder_encodeFrom(str, 1)

-----------------------------------------------------------------------------
(* Scenario: one call of strToU8, with or without a TextEncoder; the loop of
   the fallback is followed one character at a time (SpecStr) *)

\* most characters of a string made of different characters
MaxStrChars == 4
\* most repetitions of a character in a string of one character
MaxStrRepeat == 14

\* characters of 1, 2 and 3 bytes at the ends of their ranges, two surrogate
\* pairs, and a high and a low surrogate on their own
StrChars ==
  {<<127>>, <<128>>, <<2047>>, <<2048>>, <<65535>>,
   <<55357, 56832>>, <<56319, 57343>>, <<55357>>, <<56832>>}

\* the characters that are repeated: those, 'A', and the pair U+1D800
StrRepeated == StrChars \cup {<<65>>, <<55350, 56320>>}

RECURSIVE StrRepeat(_, _)
StrRepeat(ch, n) == IF n = 0 THEN <<>> ELSE ch \o StrRepeat(ch, n - 1)

RECURSIVE StrOfChars(_)
StrOfChars(chars) ==
  IF chars = <<>> THEN <<>> ELSE Head(chars) \o StrOfChars(Tail(chars))

StrSamples ==
  {StrOfChars(chars) : chars \in SeqsUpTo(StrChars, MaxStrChars)}
    \cup {StrRepeat(ch, n) : ch \in StrRepeated, n \in 0..MaxStrRepeat}

StrInit ==
  /\ pc = "str"
  /\ callIn \in [str : StrSamples, te : BOOLEAN]
  /\ callOut = <<>>
  /\ loop = strToU8_start(<<>>)
  /\ EarlyIdle /\ HashIdle

\* line 77, and lines 78-80 when there is no TextEncoder
StrEnter ==
  /\ pc = "str"
  /\ IF callIn.te
     THEN pc' = "strDone" /\ callOut' = TextEncoder_encode(callIn.str) /\ UNCHANGED loop
     ELSE pc' = "strLoop" /\ loop' = strToU8_start(callIn.str) /\ UNCHANGED callOut
  /\ UNCHANGED <<callIn, earlyVars, hashVars>>

\* one iteration of the for loop
StrChar ==
  /\ pc = "strLoop"
  /\ loop.i < Len(callIn.str)
  /\ loop' = strToU8_char(callIn.str, loop)
  /\ UNCHANGED <<pc, callIn, callOut, earlyVars, hashVars>>

\* line 101: return slc(ar, 0, ai)
StrReturn ==
  /\ pc = "strLoop"
  /\ loop.i >= Len(callIn.str)
  /\ callOut' = slc(loop.ar, 0, loop.ai)
  /\ pc' = "strDone"
  /\ UNCHANGED <<callIn, loop, earlyVars, hashVars>>

StrNext == StrEnter \/ StrChar \/ StrReturn

SpecStr == StrInit /\ [][StrNext]_vars

\* a well-formed string: every surrogate is one half of a pair
IsWellFormed(str) ==
  \A k \in 1..Len(str) :
    /\ IsHighSurrogate(str[k]) => (k < Len(str) /\ IsLowSurrogate(str[k + 1]))
    /\ IsLowSurrogate(str[k]) => (k > 1 /\ IsHighSurrogate(str[k - 1]))

\* C22: strToU8 returns the UTF-8 encoding of its input with and without a
\* TextEncoder: the fallback gives the bytes TextEncoder gives for every
\* well-formed string, a surrogate pair becoming the 4 bytes of the code point
\* 0x10000 + ((high AND 0x3FF) << 10) + (low AND 0x3FF).
C22_FallbackIsUtf8 ==
  (pc = "strDone" /\ IsWellFormed(callIn.str)) =>
    callOut = TextEncoder_encode(callIn.str)

\* C22: the fallback returned, for the one pair U+1F600, four bytes that are
\* not the UTF-8 bytes f0 9f 98 80 of that code point
C22_PairEncodedOtherwise ==
  /\ pc = "strDone" /\ ~callIn.te
  /\ callIn.str = <<55357, 56832>>
  /\ Len(callOut) = 4
  /\ callOut # <<240, 159, 152, 128>>

\* C25: in the loop of the fallback of strToU8 every byte is written at an index
\* below the length of the buffer, so that none is dropped, and the array
\* returned has exactly the bytes that were written (for a well-formed string
\* as many as its UTF-8 encoding has).
C25_WritesInsideBuffer ==
  (pc \in {"strLoop", "strDone"} /\ ~callIn.te) =>
    /\ loop.dropped = 0
    /\ loop.ai <= Len(loop.ar)
    /\ pc = "strDone" =>
         /\ Len(callOut) = loop.ai
         /\ \A k \in 1..loop.ai : callOut[k] = loop.ar[k]
         /\ IsWellFormed(callIn.str) =>
              Len(callOut) = Len(TextEncoder_encode(callIn.str))

\* C25: in the middle of a string, bytes being written already, the buffer has
\* been replaced by a longer one and is about to be replaced once more
C25_BufferGrownAgain ==
  /\ pc = "strLoop" /\ ~callIn.te
  /\ 0 < loop.i /\ loop.i < Len(callIn.str)
  /\ loop.dropped = 0 /\ loop.ai > 0
  /\ Len(loop.ar) > Len(callIn.str) + Shr(Len(callIn.str), 1)
  /\ needsGrow(loop.ai, Len(loop.ar))

-----------------------------------------------------------------------------
(* sm2/utils.ts utf8ToHex, with the encodeURIComponent and decodeURIComponent
   of the platform.  A string is the sequence of its UTF-16 code units; -1
   among the units of a result stands for the URIError thrown at that place. *)

URIError == -1

\* the characters encodeURIComponent leaves as they are: A-Z a-z 0-9 - _ . ! ~ * ' ( )
IsUnreserved(c) ==
  \/ (c >= 65 /\ c <= 90) \/ (c >= 97 /\ c <= 122) \/ IsDigit(c)
  \/ c \in {45, 95, 46, 33, 126, 42, 39, 40, 41}

\* '%' and the two upper-case hexadecimal digits of a byte
PercentEscape(b) ==
  <<37, (IF b \div 16 < 10 THEN 48 ELSE 55) + (b \div 16),
        (IF b % 16 < 10 THEN 48 ELSE 55) + (b % 16)>>

RECURSIVE PercentEscapes(_)
PercentEscapes(bytes) ==
  IF bytes = <<>> THEN <<>>
  ELSE PercentEscape(Head(bytes)) \o PercentEscapes(Tail(bytes))

\* encodeURIComponent from unit k on: a surrogate without its partner throws
RECURSIVE encodeURIComponentFrom(_, _)
encodeURIComponentFrom(str, k) ==
  IF k > Len(str) THEN <<>>
  ELSE IF IsHighSurrogate(str[k]) /\ k < Len(str) /\ IsLowSurrogate(str[k + 1])
  THEN PercentEscapes(Utf8(65536 + (str[k] - 55296) * 1024 + (str[k + 1] - 56320)))
         \o encodeURIComponentFrom(str, k + 2)
  ELSE IF IsHighSurrogate(str[k]) \/ IsLowSurrogate(str[k]) THEN <<URIError>>
  ELSE IF IsUnreserved(str[k]) THEN <<str[k]>> \o encodeURIComponentFrom(str, k + 1)
  ELSE PercentEscapes(Utf8(str[k])) \o encodeURIComponentFrom(str, k + 1)

encodeURIComponent(str) == encodeURIComponentFrom(str, 1)

\* the byte of the escape %XX at place k, or URIError when there is none
PercentByteAt(s, k) ==
  IF k + 2 <= Len(s) /\ s[k] = 37 /\ IsHexChar(s[k + 1]) /\ IsHexChar(s[k + 2])
  THEN 16 * HexVal(s[k + 1]) + HexVal(s[k + 2])
  ELSE URIError

\* a continuation byte 10xxxxxx at place k: its six bits, or URIError
ContinuationAt(s, k) ==
  IF PercentByteAt(s, k) >= 128 /\ PercentByteAt(s, k) < 192
  THEN PercentByteAt(s, k) - 128
  ELSE URIError

\* the code point of the UTF-8 sequence that starts with byte b at place k,
\* or URIError when the sequence is not the UTF-8 of a code point
EscapedCodePoint(s, k, b) ==
  IF b < 192 \/ b >= 248 THEN URIError
  ELSE IF b < 224
  THEN IF ContinuationAt(s, k + 3) = URIError \/ b < 194 THEN URIError
       ELSE (b - 192) * 64 + ContinuationAt(s, k + 3)
  ELSE IF b < 240
  THEN IF ContinuationAt(s, k + 3) = URIError \/ ContinuationAt(s, k + 6) = URIError
       THEN URIError
       ELSE (b - 224) * 4096 + ContinuationAt(s, k + 3) * 64 + ContinuationAt(s, k + 6)
  ELSE IF \E j \in 1..3 : ContinuationAt(s, k + 3 * j) = URIError THEN URIError
       ELSE (b - 240) * 262144 + ContinuationAt(s, k + 3) * 4096
              + ContinuationAt(s, k + 6) * 64 + ContinuationAt(s, k + 9)

\* the code units of a code point
CodeUnits(cp) ==
  IF cp < 65536 THEN <<cp>>
  ELSE <<55296 + ((cp - 65536) \div 1024), 56320 + ((cp - 65536) % 1024)>>

\* decodeURIComponent from place k on
RECURSIVE decodeURIComponentFrom(_, _)
decodeEscaped(s, k, b, cp) ==
  IF b < 128 THEN <<b>> \o decodeURIComponentFrom(s, k + 3)
  ELSE IF cp = URIError \/ (cp >= 55296 /\ cp <= 57343) \/ cp > 1114111
          \/ Len(Utf8(cp)) # (IF b < 224 THEN 2 ELSE IF b < 240 THEN 3 ELSE 4)
  THEN <<URIError>>
  ELSE CodeUnits(cp) \o decodeURIComponentFrom(s, k + 3 * Len(Utf8(cp)))

decodeEscape(s, k, b) ==
  IF b = URIError THEN <<URIError>> ELSE decodeEscaped(s, k, b, EscapedCodePoint(s, k, b))

decodeURIComponentFrom(s, k) ==
  IF k > Len(s) THEN <<>>
  ELSE IF s[k] = URIError THEN <<URIError>>
  ELSE IF s[k] # 37 THEN <<s[k]>> \o decodeURIComponentFrom(s, k + 1)
  ELSE decodeEscape(s, k, PercentByteAt(s, k))

decodeURIComponent(s) == decodeURIComponentFrom(s, 1)

\* lines 115-119: words, a Uint32Array held as its bytes, most significant
\* first: byte i (from 0) is byte i % 4 of word i >>> 2, and the rest is 0
utf8ToHex_words(input) ==
  Tuple([k \in 1..(4 * (Shr(Len(input), 2) + 1)) |->
           IF k <= Len(input) THEN BitOr(0, BitAnd(input[k], 255)) ELSE 0])

\* lines 122-127: two digits for each of the first length bytes of words
RECURSIVE utf8ToHex_chars(_, _, _)
utf8ToHex_chars(words, i, length) ==
  IF i >= length THEN <<>>
  ELSE toString16(Shr(BitAnd(words[i + 1], 255), 4))
         \o toString16(BitAnd(BitAnd(words[i + 1], 255), 15))
         \o utf8ToHex_chars(words, i + 1, length)

\* lines 112-129 for the string decodeURIComponent returned
utf8ToHex_decoded(input) ==
  IF \E k \in 1..Len(input) : input[k] = URIError THEN [ok |-> FALSE, val |-> <<>>]
  ELSE [ok |-> TRUE, val |-> utf8ToHex_chars(utf8ToHex_words(input), 0, Len(input))]

utf8ToHex(input) == utf8ToHex_decoded(decodeURIComponent(encodeURIComponent(input)))

-----------------------------------------------------------------------------
(* Scenario: one call of utf8ToHex (SpecUtf8Hex) *)

\* most characters of a string handed to utf8ToHex
MaxUtf8HexChars == 3

\* 'A', ' ', '%', U+007F, U+0080, U+00E9, U+4E2D, U+1F600, and a high
\* surrogate on its own
Utf8HexChars ==
  {<<65>>, <<32>>, <<37>>, <<127>>, <<128>>, <<233>>, <<20013>>, <<55357, 56832>>,
   <<55357>>}

Utf8HexInit ==
  /\ pc = "utf8ToHex"
  /\ callIn \in {StrOfChars(chars) : chars \in SeqsUpTo(Utf8HexChars, MaxUtf8HexChars)}
  /\ callOut = [ok |-> FALSE, val |-> <<>>]
  /\ EarlyIdle /\ LoopIdle /\ HashIdle

Utf8HexCall ==
  /\ pc = "utf8ToHex"
  /\ callOut' = utf8ToHex(callIn)
  /\ pc' = "utf8ToHexDone"
  /\ UNCHANGED <<callIn, earlyVars, loop, hashVars>>

Utf8HexNext == Utf8HexCall

SpecUtf8Hex == Utf8HexInit /\ [][Utf8HexNext]_vars

\* two lower-case hexadecimal digits for every byte
RECURSIVE LowerHexOf(_)
LowerHexOf(bytes) ==
  IF bytes = <<>> THEN <<>>
  ELSE <<HexChar(Head(bytes) \div 16), HexChar(Head(bytes) % 16)>> \o LowerHexOf(Tail(bytes))

\* C23: utf8ToHex(s) is the lower-case hex of the UTF-8 encoding of s, two
\* characters per UTF-8 byte, also when s has characters above U+007F.
C23_Utf8ToHexIsUtf8 ==
  (pc = "utf8ToHexDone" /\ IsWellFormed(callIn)) =>
    /\ callOut.ok
    /\ callOut.val = LowerHexOf(TextEncoder_encode(callIn))

\* C23: for the string of the one character U+00E9, whose UTF-8 bytes are
\* c3 a9, utf8ToHex returned 'e9'
C23_OneByteForLatin1 ==
  /\ pc = "utf8ToHexDone"
  /\ callIn = <<233>>
  /\ callOut.ok /\ callOut.val = <<101, 57>>

-----------------------------------------------------------------------------
(* Scenario: one call of hexToArray of sm2/utils.ts (SpecHexArray).  The    *)
(* function has no throw statement: every call returns its Uint8Array.     *)

\* most characters of a string handed to hexToArray
MaxHexArrayChars == 4

HexArrayInit ==
  /\ pc = "hexToArray"
  /\ callIn \in SeqsUpTo(HexSampleChars, MaxHexArrayChars)
  /\ callOut = HexNone
  /\ EarlyIdle /\ LoopIdle /\ HashIdle

HexArrayCall ==
  /\ pc = "hexToArray"
  /\ callOut' = [ok |-> TRUE, val |-> hexToArray(callIn)]
  /\ pc' = "hexToArrayDone"
  /\ UNCHANGED <<callIn, earlyVars, loop, hashVars>>

HexArrayNext == HexArrayCall

SpecHexArray == HexArrayInit /\ [][HexArrayNext]_vars

\* C24: hex input must be of even length: hexToArray given a string of odd
\* length fails instead of decoding it, and given a string with a character
\* that is not a hexadecimal digit it fails instead of producing bytes.
C24_HexToArrayRefuses ==
  (pc = "hexToArrayDone" /\ IsMalformedHex(callIn)) => ~callOut.ok

\* C24: hexToArray returned the bytes 0f 00 for the string 'fgg', which is of
\* odd length and has two characters that are not hexadecimal digits
C24_OddLengthPadded ==
  /\ pc = "hexToArrayDone"
  /\ callIn = <<102, 103, 103>>
  /\ callOut.ok /\ callOut.val = <<15, 0>>

====
